---- MODULE Spec2Model ----
(***************************************************************************)
(* Verification model of pywrf: the configuration store (util/config.py),  *)
(* its value coercion, the time-step search of namelist/wrf.py and the     *)
(* namelist documents of namelist/namelist.py and namelist/wrf.py.         *)
(*                                                                         *)
(* Text is a sequence of one-character strings.  A Python value is a       *)
(* record [t, v]: t names the runtime type, v carries the payload.  An     *)
(* exception is the pseudo value [t |-> "err", v |-> <<kind, text>>].      *)
(* Floats are exact rationals <<numerator, denominator>>.                  *)
(***************************************************************************)
EXTENDS Integers, Sequences, FiniteSets, TLC

VARIABLES
    pyver,      \* the interpreter the package runs on: 2 or 3 (setup.py)
    cv_pc,      \* transform_value: "start" | "done"
    cv_in,      \* transform_value: the argument `value`
    cv_def,     \* transform_value: the argument `default`
    cv_out,     \* transform_value: the returned value, or the exception
    ts_pc,      \* calc_time_step: "start" | "loop" | "done"
    ts_dx,      \* calc_time_step: dx
    ts_int,     \* calc_time_step: interval_s
    ts_k,       \* calc_time_step: the divisor k tried
    ts_out,     \* calc_time_step: the returned value <<num, den>>
    st_values,  \* ConfigStore._values: the ordered <<key, value>> pairs
    st_op,      \* the last ConfigStore operation, its arguments and outcome
    st_hist,    \* per key, the value last assigned to it, or Undefined
    rd_pc,      \* read_config_file: "open" | "env" | "load" | "include" |
                \*   "loop" | "done" | "failed"
    rd_pass,    \* 1: the file is read; 2: the dump of that store is read
    rd_fs,      \* the files on disk: <<name, text>> pairs
    rd_env,     \* os.environ: <<name, text>> pairs
    conf_str,   \* read_config_file: conf_str
    config_dict,    \* read_config_file: config_dict
    include_files,  \* read_config_file: the include files not yet read
    rd_round,   \* the reloads of the substitution loop so far
    rd_first,   \* the tree of the store read in the first pass
    rd_merged,  \* self._values as the substitution loop received it
    rd_upd,     \* the last SmartOrderedDict.update: self, other and outcome
    rd_incs,    \* the trees of the included stores, in the order included
    rd_out,     \* the exception read_config_file raised, and at which step
    nm_cls,     \* the class of the namelist object
    nm_config,  \* Namelist._config: the <<key, value>> pairs of its store
    nm_values,  \* Namelist._values: the <<name, section>> pairs
    nm_self,    \* the attributes max_dom, date_s, date_e and dfi_opt
    nm_loc,     \* the local variables of the running calc_values
    nm_pc,      \* the statement calc_values is about to run, or Idle
    nm_op,      \* the last public operation, its argument and outcome
    nm_ops,     \* the public operations so far, calc_values apart
    nm_calls,   \* the calls of calc_values so far
    nm_prev,    \* the document the last call of calc_values started from
    rg_padded,  \* whether strftime pads a year below 1000 with zeros
    rg_first,   \* range_dates: the date_s the generator was created with
    rg_date_s,  \* range_dates: date_s
    rg_date_e,  \* range_dates: date_e
    rg_inc,     \* range_dates: the increments d, h, m, s
    rg_out,     \* range_dates: the dates yielded so far
    rg_pc       \* range_dates: "idle" | "test" | "yield" | "advance" | "stopped" | "raised"

cvars == <<cv_pc, cv_in, cv_def, cv_out>>
tvars == <<ts_pc, ts_dx, ts_int, ts_k, ts_out>>
svars == <<st_values, st_op, st_hist>>
rvars == <<rd_pc, rd_pass, rd_fs, rd_env, conf_str, config_dict, include_files,
           rd_round, rd_first, rd_merged, rd_upd, rd_incs, rd_out>>

nvars == <<nm_cls, nm_config, nm_values, nm_self, nm_loc, nm_pc, nm_op, nm_ops,
           nm_calls, nm_prev>>

gvars == <<rg_padded, rg_first, rg_date_s, rg_date_e, rg_inc, rg_out, rg_pc>>

vars == <<pyver, cvars, tvars, svars, rvars, nvars, gvars>>

----------------------------------------------------------------------------
(* Python values *)

PyNone      == [t |-> "none",  v |-> 0]
PyInt(n)    == [t |-> "int",   v |-> n]
PyBool(b)   == [t |-> "bool",  v |-> b]
PyFloat(q)  == [t |-> "float", v |-> q]
PyStr(s)    == [t |-> "str",   v |-> s]
PyList(l)   == [t |-> "list",  v |-> l]
PyTuple(l)  == [t |-> "tuple", v |-> l]
PyMap(m)    == [t |-> "map",   v |-> m]
PyErr(k, s) == [t |-> "err",   v |-> <<k, s>>]

IsErr(x) == x.t = "err"

----------------------------------------------------------------------------
(* Text primitives (str methods) *)

DigitChars == <<"0", "1", "2", "3", "4", "5", "6", "7", "8", "9">>
IsDigit(c) == c \in {"0", "1", "2", "3", "4", "5", "6", "7", "8", "9"}
DigitVal(c) == CHOOSE i \in 0..9 : DigitChars[i + 1] = c
IsAlpha(c) ==
    c \in {"a", "b", "c", "d", "e", "f", "g", "h", "i", "j", "k", "l", "m",
           "n", "o", "p", "q", "r", "s", "t", "u", "v", "w", "x", "y", "z",
           "A", "B", "C", "D", "E", "F", "G", "H", "I", "J", "K", "L", "M",
           "N", "O", "P", "Q", "R", "S", "T", "U", "V", "W", "X", "Y", "Z", "_"}
IsIdChar(c) == IsAlpha(c) \/ IsDigit(c)

Drop(s, n) == SubSeq(s, n + 1, Len(s))
Take(s, n) == SubSeq(s, 1, n)

StartsWith(s, p) == Len(s) >= Len(p) /\ Take(s, Len(p)) = p

Contains(s, c) == \E i \in 1..Len(s) : s[i] = c

Range(s) == {s[i] : i \in 1..Len(s)}

\* the length of the longest prefix of s made of characters of set
RunOf(s, set) ==
    CHOOSE n \in 0..Len(s) :
        /\ \A i \in 1..n : s[i] \in set
        /\ (n = Len(s) \/ s[n + 1] \notin set)

LStrip(s) == Drop(s, RunOf(s, {" "}))

RStrip(s) ==
    Take(s, CHOOSE n \in 0..Len(s) :
                /\ \A i \in (n + 1)..Len(s) : s[i] = " "
                /\ (n = 0 \/ s[n] # " "))

\* str.strip
Strip(s) == RStrip(LStrip(s))

\* index of the first occurrence of p in s at or after position i, 0 if none
FirstOf(hits) == IF hits = {} THEN 0 ELSE CHOOSE j \in hits : \A k \in hits : j <= k

FindFrom(s, p, i) ==
    FirstOf({j \in i..(Len(s) - Len(p) + 1) : SubSeq(s, j, j + Len(p) - 1) = p})

\* str.split(sep) for a one-character separator: the segments, empty ones kept
RECURSIVE Split(_, _)
Split(s, sep) ==
    LET i == FindFrom(s, <<sep>>, 1) IN
    IF i = 0 THEN <<s>>
    ELSE <<Take(s, i - 1)>> \o Split(Drop(s, i), sep)

\* str.replace(old, new): every non-overlapping occurrence, left to right
RECURSIVE Replace(_, _, _)
Replace(s, old, new) ==
    LET i == FindFrom(s, old, 1) IN
    IF i = 0 THEN s
    ELSE Take(s, i - 1) \o new \o Replace(Drop(s, i + Len(old) - 1), old, new)

RECURSIVE NatText(_)
NatText(n) ==
    IF n < 10 THEN <<DigitChars[n + 1]>>
    ELSE NatText(n \div 10) \o <<DigitChars[(n % 10) + 1]>>

\* str(int)
IntText(n) == IF n < 0 THEN <<"-">> \o NatText(-n) ELSE NatText(n)

----------------------------------------------------------------------------
(* Python numbers: int, and float as an exact rational *)

Abs(n) == IF n < 0 THEN -n ELSE n

RECURSIVE GCD(_, _)
GCD(a, b) == IF b = 0 THEN a ELSE GCD(b, a % b)

\* the rational n/d in lowest terms with a positive denominator (d # 0)
RatOver(n, d, g) == <<(IF d < 0 THEN -1 ELSE 1) * (n \div g), Abs(d) \div g>>
Rat(n, d) == RatOver(n, d, GCD(Abs(n), Abs(d)))

RatAdd(p, q) == Rat(p[1] * q[2] + q[1] * p[2], p[2] * q[2])
RatSub(p, q) == Rat(p[1] * q[2] - q[1] * p[2], p[2] * q[2])
RatMul(p, q) == Rat(p[1] * q[1], p[2] * q[2])
RatDiv(p, q) == Rat(p[1] * q[2], p[2] * q[1])
RatFloor(p)  == p[1] \div p[2]
RatIsInt(p)  == p[2] = 1
RatLess(p, q) == p[1] * q[2] < q[1] * p[2]

\* int(float): truncation toward zero
RatTrunc(p) == IF p[1] < 0 THEN -((-p[1]) \div p[2]) ELSE p[1] \div p[2]

\* math.ceil
RatCeil(p) == -((-p[1]) \div p[2])

IsNum(x) == x.t \in {"int", "float", "bool"}
NumRat(x) ==
    IF x.t = "int" THEN <<x.v, 1>>
    ELSE IF x.t = "bool" THEN (IF x.v THEN <<1, 1>> ELSE <<0, 1>>)
    ELSE x.v
IsIntLike(x) == x.t \in {"int", "bool"}

RECURSIVE IntPow(_, _)
IntPow(b, e) == IF e = 0 THEN 1 ELSE b * IntPow(b, e - 1)

\* the result of an operator as an int when both operands are, else a float
Num(ints, r) == IF ints THEN PyInt(r[1]) ELSE PyFloat(r)

\* p + q, p - q or p * q
RatOf(op, p, q) ==
    Rat(CASE op = "+" -> p[1] * q[2] + q[1] * p[2]
          [] op = "-" -> p[1] * q[2] - q[1] * p[2]
          [] OTHER    -> p[1] * q[1],
        p[2] * q[2])

\* op on the rationals p and q; quot is p / q where q is not zero, and
\* p % q is p - q * floor(p / q)
ArithOn(op, p, q, ints, quot) ==
    IF op \in {"/", "//", "%"} /\ q[1] = 0 THEN PyErr("ZeroDivisionError", <<>>)
    ELSE CASE op \in {"+", "-", "*", "%"} ->
                Num(ints, RatOf(IF op = "%" THEN "-" ELSE op, p,
                                IF op = "%" THEN <<q[1] * RatFloor(quot), q[2]>> ELSE q))
           [] op = "/" ->
                IF ints /\ pyver = 2 THEN PyInt(RatFloor(quot)) ELSE PyFloat(quot)
           [] op = "//" -> Num(ints, <<RatFloor(quot), 1>>)
           [] op = "**" ->
                IF ints /\ q[1] >= 0 THEN PyInt(IntPow(p[1], q[1]))
                ELSE PyErr("Unsupported", <<>>)
           [] OTHER -> PyErr("SyntaxError", <<>>)

\* a binary arithmetic operator of Python on two values.  int / int is floor
\* division on Python 2 and true division on Python 3.
Arith(op, a, b) ==
    IF ~(IsNum(a) /\ IsNum(b)) THEN PyErr("TypeError", <<>>)
    ELSE ArithOn(op, NumRat(a), NumRat(b), IsIntLike(a) /\ IsIntLike(b),
                 RatDiv(NumRat(a), NumRat(b)))

FracDigitsBound == 4

RECURSIVE FracDigits(_, _, _)
FracDigits(r, d, k) ==
    IF r = 0 \/ k = 0 THEN <<>>
    ELSE <<DigitChars[((r * 10) \div d) + 1]>> \o FracDigits((r * 10) % d, d, k - 1)

\* str(float): shortest decimal of a terminating fraction ("4.0", "1.5")
FloatText(q) ==
    LET n  == Abs(q[1])
        fr == FracDigits(n % q[2], q[2], FracDigitsBound)
    IN  (IF q[1] < 0 THEN <<"-">> ELSE <<>>) \o NatText(n \div q[2]) \o <<".">>
        \o (IF fr = <<>> THEN <<"0">> ELSE fr)

----------------------------------------------------------------------------
(* The Python expression tokenizer, as far as configuration texts use it *)

Tok(k, v) == [k |-> k, v |-> v]

DigitRun(s) == RunOf(s, {c \in Range(s) : IsDigit(c)})

IdRun(s) == RunOf(s, {c \in Range(s) : IsIdChar(c)})

RECURSIVE DigitsVal(_, _)
DigitsVal(s, acc) ==
    IF s = <<>> THEN acc ELSE DigitsVal(Tail(s), acc * 10 + DigitVal(s[1]))

RECURSIVE Pow10(_)
RECURSIVE OctalVal(_, _)
OctalVal(s, acc) ==
    IF s = <<>> THEN acc ELSE OctalVal(Tail(s), acc * 8 + DigitVal(s[1]))

Pow10(n) == IF n = 0 THEN 1 ELSE 10 * Pow10(n - 1)

OpChars == {"+", "-", "*", "/", "%", "(", ")", ",", "[", "]", "~"}
QuoteChars == {"'", "\""}

RECURSIVE Lex(_)

\* a number of n1 digits, then n2 digits after a dot if there is one; ip is
\* the value of the first n1 digits
LexNumber(s, n1, dot, n2, ip) ==
    IF dot
    THEN <<Tok("num", PyFloat(Rat(ip * Pow10(n2)
                                    + DigitsVal(SubSeq(s, n1 + 2, n1 + 1 + n2), 0),
                                  Pow10(n2))))>>
         \o Lex(Drop(s, n1 + 1 + n2))
    ELSE IF n1 >= 2 /\ s[1] = "0"
    THEN IF pyver = 2 /\ \A i \in 1..n1 : DigitVal(s[i]) < 8
         THEN <<Tok("num", PyInt(OctalVal(Take(s, n1), 0)))>>   \* octal
              \o Lex(Drop(s, n1))
         ELSE <<Tok("bad", <<>>)>>    \* "01": an error on Python 3
    ELSE <<Tok("num", PyInt(ip))>> \o Lex(Drop(s, n1))

LexDigits(s, n1, dot) ==
    LexNumber(s, n1, dot, IF dot THEN DigitRun(Drop(s, n1 + 1)) ELSE 0,
              DigitsVal(Take(s, n1), 0))

LexName(s, n) == <<Tok("name", Take(s, n))>> \o Lex(Drop(s, n))

\* a string literal whose closing quote of length q starts at j (0 if none)
LexString(s, q, j) ==
    IF j = 0 THEN <<Tok("bad", <<>>)>>       \* unterminated string literal
    ELSE <<Tok("str", SubSeq(s, q + 1, j - 1))>> \o Lex(Drop(s, j + q - 1))

LexAt(s, c) ==
    IF c = " " THEN Lex(Tail(s))
    ELSE IF c = "#" THEN <<>>                     \* a comment runs to the end
    ELSE IF IsDigit(c) \/ (c = "." /\ Len(s) >= 2 /\ IsDigit(s[2])) THEN
        LexDigits(s, DigitRun(s), Len(s) > DigitRun(s) /\ s[DigitRun(s) + 1] = ".")
    ELSE IF IsAlpha(c) THEN LexName(s, IdRun(s))
    ELSE IF c \in QuoteChars /\ Len(s) >= 3 /\ s[2] = c /\ s[3] = c THEN
        LexString(s, 3, FindFrom(s, <<c, c, c>>, 4))      \* triple-quoted
    ELSE IF c \in QuoteChars THEN LexString(s, 1, FindFrom(s, <<c>>, 2))
    ELSE IF c \in {"*", "/"} /\ Len(s) >= 2 /\ s[2] = c THEN
        <<Tok("op", IF c = "*" THEN "**" ELSE "//")>> \o Lex(Drop(s, 2))
    ELSE IF c \in OpChars THEN <<Tok("op", c)>> \o Lex(Tail(s))
    ELSE <<Tok("bad", <<>>)>>

Lex(s) == IF s = <<>> THEN <<>> ELSE LexAt(s, s[1])

----------------------------------------------------------------------------
(* eval(): the expression evaluator on a token sequence.  Each parser       *)
(* returns [ok, val, i]: whether it succeeded, the value (or the           *)
(* exception) and the index of the next token.                             *)

PR(ok, val, i) == [ok |-> ok, val |-> val, i |-> i]
SynErr(i) == PR(FALSE, PyErr("SyntaxError", <<>>), i)
ValR(x, i) == PR(~IsErr(x), x, i)

IsOp(tk, i, o) == i <= Len(tk) /\ tk[i].k = "op" /\ tk[i].v = o

\* the number of string literals in a row from token i on
StrRun(tk, i) ==
    CHOOSE n \in 1..(Len(tk) - i + 1) :
        /\ \A j \in i..(i + n - 1) : tk[j].k = "str"
        /\ i + n > Len(tk) \/ tk[i + n].k # "str"

\* adjacent string literals are one string
RECURSIVE StrCat(_, _, _)
StrCat(tk, i, n) == IF n = 0 THEN <<>> ELSE tk[i].v \o StrCat(tk, i + 1, n - 1)

RECURSIVE PyEval(_)
RECURSIVE PItems(_, _, _, _, _)
RECURSIVE PSum(_, _)
RECURSIVE PSumRest(_, _, _)
RECURSIVE PTerm(_, _)
RECURSIVE PTermRest(_, _, _)
RECURSIVE PUnary(_, _)
RECURSIVE PAtom(_, _)

\* expr ("," expr)* [","] up to the closing token `closer` ("" for the end):
\* val is <<the values, whether a comma was seen>>; r is the first expression
PItemsAfter(tk, closer, acc, comma, r) ==
    IF ~r.ok THEN r
    ELSE IF IsOp(tk, r.i, ",") THEN
        IF r.i + 1 > Len(tk) \/ (closer # "" /\ IsOp(tk, r.i + 1, closer))
        THEN PR(TRUE, <<Append(acc, r.val), TRUE>>, r.i + 1)
        ELSE PItems(tk, r.i + 1, closer, Append(acc, r.val), TRUE)
    ELSE PR(TRUE, <<Append(acc, r.val), comma>>, r.i)

PItems(tk, i, closer, acc, comma) == PItemsAfter(tk, closer, acc, comma, PSum(tk, i))

\* the items a between an opening token and the closing token cl: a call of
\* the builtin eval inside the evaluated text, a list, a tuple or a
\* parenthesised expression
PAtomClosed(tk, isCall, cl, a) ==
    IF ~a.ok THEN a
    ELSE IF ~IsOp(tk, a.i, cl) THEN SynErr(a.i)
    ELSE IF isCall THEN
        IF Len(a.val[1]) = 1 /\ a.val[1][1].t = "str"
        THEN ValR(PyEval(a.val[1][1].v), a.i + 1)
        ELSE PR(FALSE, PyErr("TypeError", <<>>), a.i + 1)
    ELSE IF cl = "]" THEN PR(TRUE, PyList(a.val[1]), a.i + 1)
    ELSE IF a.val[2] THEN PR(TRUE, PyTuple(a.val[1]), a.i + 1)
    ELSE PR(TRUE, a.val[1][1], a.i + 1)

PAtomOf(tk, i, t, isCall) ==
    CASE t.k = "num" -> PR(TRUE, t.v, i + 1)
      [] t.k = "str" -> PR(TRUE, PyStr(StrCat(tk, i, StrRun(tk, i))), i + StrRun(tk, i))
      [] t.k = "name" /\ ~isCall ->
            IF t.v = <<"N", "o", "n", "e">> THEN PR(TRUE, PyNone, i + 1)
            ELSE IF t.v = <<"T", "r", "u", "e">> THEN PR(TRUE, PyBool(TRUE), i + 1)
            ELSE IF t.v = <<"F", "a", "l", "s", "e">> THEN PR(TRUE, PyBool(FALSE), i + 1)
            ELSE PR(FALSE, PyErr("NameError", t.v), i + 1)
      [] t.k = "op" /\ t.v = "(" /\ IsOp(tk, i + 1, ")") -> PR(TRUE, PyTuple(<<>>), i + 2)
      [] t.k = "op" /\ t.v = "[" /\ IsOp(tk, i + 1, "]") -> PR(TRUE, PyList(<<>>), i + 2)
      [] isCall \/ (t.k = "op" /\ t.v \in {"(", "["}) ->
            PAtomClosed(tk, isCall, IF t.v = "[" THEN "]" ELSE ")",
                        PItems(tk, IF isCall THEN i + 2 ELSE i + 1,
                               IF t.v = "[" THEN "]" ELSE ")", <<>>, FALSE))
      [] OTHER -> SynErr(i)

PAtom(tk, i) ==
    IF i > Len(tk) THEN SynErr(i)
    ELSE PAtomOf(tk, i, tk[i],
                 tk[i].k = "name" /\ tk[i].v = <<"e", "v", "a", "l">> /\ IsOp(tk, i + 1, "("))

\* o x for a prefix operator o: -x, +x, and ~x = -1 - x on integers
PUnarySign(o, r) ==
    IF ~r.ok THEN r
    ELSE IF o = "~" /\ ~IsIntLike(r.val) THEN PR(FALSE, PyErr("TypeError", <<>>), r.i)
    ELSE ValR(Arith(IF o = "~" THEN "-" ELSE "*", PyInt(IF o = "+" THEN 1 ELSE -1), r.val),
              r.i)

PUnaryPower(a, e) == IF ~e.ok THEN e ELSE ValR(Arith("**", a.val, e.val), e.i)

PUnaryAtom(tk, a) ==
    IF a.ok /\ IsOp(tk, a.i, "**") THEN PUnaryPower(a, PUnary(tk, a.i + 1)) ELSE a

PUnary(tk, i) ==
    IF \E o \in {"-", "+", "~"} : IsOp(tk, i, o)
    THEN PUnarySign(tk[i].v, PUnary(tk, i + 1))
    ELSE PUnaryAtom(tk, PAtom(tk, i))

\* acc o r for the operator o, then the rest of the term
PTermApplied(tk, r, x) ==
    IF ~r.ok THEN r
    ELSE IF IsErr(x) THEN PR(FALSE, x, r.i) ELSE PTermRest(tk, r.i, x)

PTermOperand(tk, o, acc, r) == PTermApplied(tk, r, Arith(o, acc, r.val))

PTermRest(tk, i, acc) ==
    IF \E o \in {"*", "/", "//", "%"} : IsOp(tk, i, o)
    THEN PTermOperand(tk, tk[i].v, acc, PUnary(tk, i + 1))
    ELSE PR(TRUE, acc, i)

PTermFirst(tk, r) == IF ~r.ok THEN r ELSE PTermRest(tk, r.i, r.val)

PTerm(tk, i) == PTermFirst(tk, PUnary(tk, i))

PSumApplied(tk, r, x) ==
    IF ~r.ok THEN r
    ELSE IF IsErr(x) THEN PR(FALSE, x, r.i) ELSE PSumRest(tk, r.i, x)

PSumOperand(tk, o, acc, r) == PSumApplied(tk, r, Arith(o, acc, r.val))

PSumRest(tk, i, acc) ==
    IF IsOp(tk, i, "+") \/ IsOp(tk, i, "-")
    THEN PSumOperand(tk, tk[i].v, acc, PTerm(tk, i + 1))
    ELSE PR(TRUE, acc, i)

PSumFirst(tk, r) == IF ~r.ok THEN r ELSE PSumRest(tk, r.i, r.val)

PSum(tk, i) == PSumFirst(tk, PTerm(tk, i))

PyEvalParsed(tk, r) ==
    IF ~r.ok THEN r.val
    ELSE IF r.i <= Len(tk) THEN PyErr("SyntaxError", <<>>)
    ELSE IF r.val[2] THEN PyTuple(r.val[1])
    ELSE r.val[1][1]

PyEvalTokens(tk) ==
    IF tk = <<>> \/ \E j \in 1..Len(tk) : tk[j].k = "bad"
    THEN PyErr("SyntaxError", <<>>)
    ELSE PyEvalParsed(tk, PItems(tk, 1, "", <<>>, FALSE))

\* the builtin eval(text): the value of the expression, or the exception
PyEval(s) == PyEvalTokens(Lex(s))

----------------------------------------------------------------------------
(* str(), repr() and the type constructors used by transform_value *)

RECURSIVE JoinText(_, _)
JoinText(parts, sep) ==
    IF parts = <<>> THEN <<>>
    ELSE IF Len(parts) = 1 THEN parts[1]
    ELSE parts[1] \o sep \o JoinText(Tail(parts), sep)

RECURSIVE PyStrOf(_)
RECURSIVE PyRepr(_)
RECURSIVE YamlDump(_)

\* the text with a backslash before every single quote and backslash
RECURSIVE Escaped(_)
Escaped(s) ==
    IF ~Contains(s, "'") /\ ~Contains(s, "\\") THEN s
    ELSE (IF s[1] \in {"'", "\\"} THEN <<"\\", s[1]>> ELSE <<s[1]>>) \o Escaped(Tail(s))

\* repr(x)
PyRepr(x) ==
    IF x.t = "str"
    THEN IF Contains(x.v, "'") /\ ~Contains(x.v, "\"")
         THEN <<"\"">> \o x.v \o <<"\"">>
         ELSE <<"'">> \o Escaped(x.v) \o <<"'">>
    ELSE PyStrOf(x)

\* str(x); a SmartOrderedDict prints as its YAML dump (__str__)
PyStrOf(x) ==
    CASE x.t = "none"  -> <<"N", "o", "n", "e">>
      [] x.t = "int"   -> IntText(x.v)
      [] x.t = "float" -> FloatText(x.v)
      [] x.t = "bool"  -> IF x.v THEN <<"T", "r", "u", "e">>
                                 ELSE <<"F", "a", "l", "s", "e">>
      [] x.t = "str"   -> x.v
      [] x.t = "list"  ->
            <<"[">> \o JoinText([i \in 1..Len(x.v) |-> PyRepr(x.v[i])], <<",", " ">>)
            \o <<"]">>
      [] x.t = "tuple" ->
            <<"(">> \o JoinText([i \in 1..Len(x.v) |-> PyRepr(x.v[i])], <<",", " ">>)
            \o (IF Len(x.v) = 1 THEN <<",", ")">> ELSE <<")">>)
      [] x.t = "map"   -> YamlDump(x)
      [] OTHER         -> <<>>

----------------------------------------------------------------------------
(* PyYAML as config.py uses it: yaml.dump in block style *)

\* a construct of YAML this model does not cover
Unmodelled == <<"<unmodelled>">>

IsUnmodelled(s) == \E i \in 1..Len(s) : s[i] = "<unmodelled>"

OctalDigits == {"0", "1", "2", "3", "4", "5", "6", "7"}

Unsigned(s) == IF s # <<>> /\ s[1] \in {"-", "+"} THEN Tail(s) ELSE s

\* length of the longest prefix of s made of characters of set

AllIn(s, set) == \A i \in 1..Len(s) : s[i] \in set

DecDigits == {"0", "1", "2", "3", "4", "5", "6", "7", "8", "9"}
DecUnder == DecDigits \cup {"_"}
HexUnder == DecUnder \cup {"a", "b", "c", "d", "e", "f", "A", "B", "C", "D", "E", "F"}

\* (?::[0-5]?[0-9])+ followed by tail, which must satisfy the pattern
\* "." [0-9_]* when dotted and be empty otherwise
RECURSIVE SexGroups(_, _)
SexGroups(s, dotted) ==
    LET rest(r) == \/ (IF dotted THEN r # <<>> /\ r[1] = "." /\ AllIn(Tail(r), DecUnder)
                       ELSE r = <<>>)
                   \/ SexGroups(r, dotted)
    IN  /\ Len(s) >= 2
        /\ s[1] = ":"
        /\ \/ (s[2] \in DecDigits /\ rest(Drop(s, 2)))
           \/ (Len(s) >= 3 /\ s[2] \in {"0", "1", "2", "3", "4", "5"}
                 /\ s[3] \in DecDigits /\ rest(Drop(s, 3)))

\* the resolver's int pattern, decimal and octal forms (underscores allowed)
YamlIsInt(s) ==
    LET d == Unsigned(s) IN
    /\ d # <<>>
    /\ \/ d = <<"0">>
       \/ (d[1] \in DecDigits \ {"0"} /\ AllIn(Tail(d), DecUnder))
       \/ (d[1] = "0" /\ Len(d) >= 2 /\ AllIn(Tail(d), OctalDigits \cup {"_"}))

\* the resolver's float pattern, plain decimal forms:
\* [-+]?[0-9][0-9_]*\.[0-9_]* and \.[0-9][0-9_]*
YamlIsFloatOf(s, d, n1) ==
        \/ /\ n1 >= 1
           /\ d[1] \in DecDigits
           /\ Len(d) > n1
           /\ d[n1 + 1] = "."
           /\ AllIn(Drop(d, n1 + 1), DecUnder)
        \/ /\ Len(s) >= 2
           /\ s[1] = "."
           /\ s[2] \in DecDigits
           /\ AllIn(Drop(s, 2), DecUnder)

YamlIsFloat(s) == YamlIsFloatOf(s, Unsigned(s), RunOf(Unsigned(s), DecUnder))

\* [eE][-+][0-9]+
IsExponent(e) ==
    /\ Len(e) >= 3
    /\ e[1] \in {"e", "E"}
    /\ e[2] \in {"-", "+"}
    /\ AllIn(Drop(e, 2), DecDigits)

InfTexts == { <<"i", "n", "f">>, <<"I", "n", "f">>, <<"I", "N", "F">> }
NanTexts == { <<"n", "a", "n">>, <<"N", "a", "N">>, <<"N", "A", "N">> }

\* [0-9]{4}-[0-9]{2}-[0-9]{2}
IsDate(s) ==
    /\ Len(s) = 10
    /\ \A i \in {1, 2, 3, 4, 6, 7, 9, 10} : s[i] \in DecDigits
    /\ s[5] = "-"
    /\ s[8] = "-"

\* the start of the long timestamp pattern, which this model does not decide
MayBeTimestamp(s) ==
    /\ Len(s) > 10
    /\ AllIn(Take(s, 4), DecDigits)
    /\ s[5] = "-"
    /\ s[6] \in DecDigits

\* the other implicit tags: merge, value, timestamp, binary, hexadecimal and
\* sexagesimal numbers, floats with an exponent, infinities and NaN
YamlIsOtherTagOf(s, d, n1, m1, m2) ==
        \/ s \in { <<"<", "<">>, <<"=">> }
        \/ IsDate(s)
        \/ (Len(d) >= 3 /\ Take(d, 2) = <<"0", "b">> /\ AllIn(Drop(d, 2), {"0", "1", "_"}))
        \/ (Len(d) >= 3 /\ Take(d, 2) = <<"0", "x">> /\ AllIn(Drop(d, 2), HexUnder))
        \/ (n1 >= 1 /\ d[1] \in DecDigits \ {"0"} /\ SexGroups(Drop(d, n1), FALSE))
        \/ (n1 >= 1 /\ d[1] \in DecDigits /\ SexGroups(Drop(d, n1), TRUE))
        \/ (m1 >= 1 /\ d[1] \in DecDigits /\ IsExponent(Drop(d, m1)))
        \/ (m2 >= 1 /\ IsExponent(Drop(s, m2)))
        \/ (d # <<>> /\ d[1] = "." /\ Tail(d) \in InfTexts)
        \/ (s # <<>> /\ s[1] = "." /\ Tail(s) \in NanTexts)

\* the end of the mantissa [0-9][0-9_]*\.[0-9_]* in d, 0 if d has none
MantissaEnd(d, n1) ==
    IF n1 >= 1 /\ Len(d) > n1 /\ d[n1 + 1] = "."
    THEN n1 + 1 + RunOf(Drop(d, n1 + 1), DecUnder) ELSE 0

YamlIsOtherTag(s) ==
    YamlIsOtherTagOf(s, Unsigned(s), RunOf(Unsigned(s), DecUnder),
                     MantissaEnd(Unsigned(s), RunOf(Unsigned(s), DecUnder)),
                     IF Len(s) >= 2 /\ s[1] = "." /\ s[2] \in DecDigits
                     THEN 1 + RunOf(Tail(s), DecUnder) ELSE 0)

YamlNullTexts == { <<>>, <<"~">>, <<"n", "u", "l", "l">>, <<"N", "u", "l", "l">>,
                   <<"N", "U", "L", "L">> }

YamlTrueTexts == { <<"t", "r", "u", "e">>, <<"T", "r", "u", "e">>,
                   <<"T", "R", "U", "E">>, <<"y", "e", "s">>, <<"Y", "e", "s">>,
                   <<"Y", "E", "S">>, <<"o", "n">>, <<"O", "n">>, <<"O", "N">> }

YamlFalseTexts == { <<"f", "a", "l", "s", "e">>, <<"F", "a", "l", "s", "e">>,
                    <<"F", "A", "L", "S", "E">>, <<"n", "o">>, <<"N", "o">>,
                    <<"N", "O">>, <<"o", "f", "f">>, <<"O", "f", "f">>,
                    <<"O", "F", "F">> }

\* Resolver.resolve on a plain scalar: the implicit tag
YamlTag(s) ==
    IF s \in YamlNullTexts THEN "null"
    ELSE IF s \in YamlTrueTexts \cup YamlFalseTexts THEN "bool"
    ELSE IF YamlIsInt(s) THEN "int"
    ELSE IF YamlIsFloat(s) THEN "float"
    ELSE IF YamlIsOtherTag(s) THEN "other"
    ELSE "str"

FollowedBySpace(s, i) == i + 1 > Len(s) \/ s[i + 1] = " "
PrecededBySpace(s, i) == i = 1 \/ s[i - 1] = " "

StartIndicators == {"#", ",", "[", "]", "{", "}", "&", "*", "!", "|", ">", "'",
                    "\"", "%", "@"}

\* Emitter.analyze_scalar: block_indicators
BlockIndicators(s) ==
    \/ StartsWith(s, <<"-", "-", "-">>)
    \/ StartsWith(s, <<".", ".", ".">>)
    \/ s[1] \in StartIndicators
    \/ (s[1] \in {"?", ":", "-"} /\ FollowedBySpace(s, 1))
    \/ \E i \in 2..Len(s) :
          \/ (s[i] = ":" /\ FollowedBySpace(s, i))
          \/ (s[i] = "#" /\ PrecededBySpace(s, i))

\* Emitter.choose_scalar_style for a str in block context: plain or quoted
PlainAllowed(s) ==
    /\ s # <<>>
    /\ YamlTag(s) = "str"
    /\ ~BlockIndicators(s)
    /\ s[1] # " "
    /\ s[Len(s)] # " "

\* Emitter.write_single_quoted, within the line width
SingleQuoted(s) == <<"'">> \o Replace(s, <<"'">>, <<"'", "'">>) \o <<"'">>

PrintableChars ==
    { " ", "!", "\"", "#", "$", "%", "&", "'", "(", ")", "*", "+", ",", "-", ".",
      "/", ":", ";", "<", "=", ">", "?", "@", "[", "]", "^", "_", "{", "|",
      "}", "~" }

\* a str scalar as the emitter writes it
YamlStr(s) ==
    IF \E i \in 1..Len(s) : ~(IsDigit(s[i]) \/ IsAlpha(s[i]) \/ s[i] \in PrintableChars)
          \/ MayBeTimestamp(s)
    THEN Unmodelled
    ELSE IF PlainAllowed(s) THEN s ELSE SingleQuoted(s)

\* Representer: a scalar node's text
YamlScalar(x) ==
    CASE x.t = "none"  -> <<"n", "u", "l", "l">>
      [] x.t = "bool"  -> IF x.v THEN <<"t", "r", "u", "e">>
                                 ELSE <<"f", "a", "l", "s", "e">>
      [] x.t = "int"   -> IntText(x.v)
      [] x.t = "float" -> FloatText(x.v)
      [] x.t = "str"   -> YamlStr(x.v)
      [] OTHER         -> Unmodelled

Spaces(n) == [i \in 1..n |-> " "]

NL == <<"\n">>

IsScalar(x) == x.t \in {"none", "bool", "int", "float", "str"}

\* a block sequence of scalars at the given indent
RECURSIVE YamlSeqLines(_, _)
YamlSeqLines(items, indent) ==
    IF items = <<>> THEN <<>>
    ELSE (IF IsScalar(items[1])
          THEN Spaces(indent) \o <<"-", " ">> \o YamlScalar(items[1]) \o NL
          ELSE Unmodelled)
         \o YamlSeqLines(Tail(items), indent)

\* a block mapping at the given indent: "key: value" lines, a nested mapping
\* indented by two, a sequence under its key at the key's indent
RECURSIVE YamlMapLines(_, _)
YamlMapEntry(head, x, indent) ==
    CASE IsScalar(x) -> head \o <<" ">> \o YamlScalar(x) \o NL
      [] x.t = "list" ->
            IF x.v = <<>> THEN head \o <<" ", "[", "]">> \o NL
            ELSE head \o NL \o YamlSeqLines(x.v, indent)
      [] x.t = "map" ->
            IF x.v = <<>> THEN head \o <<" ", "{", "}">> \o NL
            ELSE head \o NL \o YamlMapLines(x.v, indent + 2)
      [] OTHER -> Unmodelled

YamlMapLines(m, indent) ==
    IF m = <<>> THEN <<>>
    ELSE YamlMapEntry(Spaces(indent) \o YamlScalar(m[1][1]) \o <<":">>, m[1][2], indent)
         \o YamlMapLines(Tail(m), indent)

\* yaml.dump(SmartOrderedDict)
YamlDump(x) ==
    IF x.t # "map" THEN Unmodelled
    ELSE IF x.v = <<>> THEN <<"{", "}">> \o NL
    ELSE YamlMapLines(x.v, 0)

\* int(text): surrounding blanks and a sign are accepted
IntOfDigits(s, neg, d) ==
    IF d # <<>> /\ DigitRun(d) = Len(d)
    THEN PyInt(IF neg THEN -DigitsVal(d, 0) ELSE DigitsVal(d, 0))
    ELSE PyErr("ValueError", s)

Negative(u) == u # <<>> /\ u[1] = "-"

IntOfText(s) == IntOfDigits(s, Negative(Strip(s)), Unsigned(Strip(s)))

\* float(text): a signed decimal literal
FloatOfTokens(s, neg, d, tk) ==
    IF d # <<>> /\ ~Contains(d, " ") /\ Len(tk) = 1 /\ tk[1].k = "num"
    THEN PyFloat(IF neg THEN RatMul(<<-1, 1>>, NumRat(tk[1].v)) ELSE NumRat(tk[1].v))
    ELSE PyErr("ValueError", s)

FloatOfText(s) ==
    FloatOfTokens(s, Negative(Strip(s)), Unsigned(Strip(s)), Lex(Unsigned(Strip(s))))

\* bool(x)
Truthy(x) ==
    CASE x.t = "none" -> FALSE
      [] x.t = "bool" -> x.v
      [] x.t = "int"  -> x.v # 0
      [] x.t = "float" -> x.v[1] # 0
      [] OTHER -> x.v # <<>>

\* type(default)(value): the constructor call of transform_value, line 120
Convert(ty, x) ==
    CASE ty = "str"  -> PyStr(PyStrOf(x))
      [] ty = "bool" -> PyBool(Truthy(x))
      [] ty = "int"  ->
            CASE x.t = "int"   -> x
              [] x.t = "bool"  -> PyInt(NumRat(x)[1])
              [] x.t = "float" -> PyInt(RatTrunc(x.v))
              [] x.t = "str"   -> IntOfText(x.v)
              [] OTHER         -> PyErr("TypeError", <<>>)
      [] ty = "float" ->
            CASE x.t \in {"int", "bool", "float"} -> PyFloat(NumRat(x))
              [] x.t = "str"   -> FloatOfText(x.v)
              [] OTHER         -> PyErr("TypeError", <<>>)
      [] ty = "list" ->
            CASE x.t = "str"   -> PyList([i \in 1..Len(x.v) |-> PyStr(<<x.v[i]>>)])
              [] x.t \in {"list", "tuple"} -> PyList(x.v)
              [] x.t = "map"   -> PyList([i \in 1..Len(x.v) |-> x.v[i][1]])
              [] OTHER         -> PyErr("TypeError", <<>>)
      [] OTHER -> PyErr("TypeError", <<>>)

----------------------------------------------------------------------------
(* PyYAML as config.py uses it: the scalars yaml.load constructs *)

YamlError == PyErr("YAMLError", <<>>)
NotModelled == PyErr("Unmodelled", <<>>)

RECURSIVE StripUnder(_)
StripUnder(s) ==
    IF s = <<>> THEN <<>>
    ELSE (IF s[1] = "_" THEN <<>> ELSE <<s[1]>>) \o StripUnder(Tail(s))

\* construct_yaml_int for the decimal and octal forms; d is the digits
YamlIntOf(s, d) ==
    PyInt((IF s[1] = "-" THEN -1 ELSE 1)
          * (IF Len(d) >= 2 /\ d[1] = "0" THEN OctalVal(d, 0) ELSE DigitsVal(d, 0)))

YamlInt(s) == YamlIntOf(s, StripUnder(Unsigned(s)))

\* construct_yaml_float for the plain decimal forms; ip is the integer part
\* and fr the digits of the fraction
YamlFloatOf(s, ip, fr) ==
    PyFloat(RatMul(<<IF s[1] = "-" THEN -1 ELSE 1, 1>>,
                   Rat(ip * Pow10(Len(fr)) + DigitsVal(fr, 0), Pow10(Len(fr)))))

YamlFloatParts(s, d, n1) == YamlFloatOf(s, DigitsVal(Take(d, n1), 0), Drop(d, n1 + 1))

YamlFloatDigits(s, d) == YamlFloatParts(s, d, DigitRun(d))

YamlFloat(s) == YamlFloatDigits(s, StripUnder(Unsigned(s)))

\* the value of a plain scalar with the implicit tag `tag`
YamlPlainOf(s, tag) ==
    CASE tag = "null"  -> PyNone
      [] tag = "bool"  -> PyBool(s \in YamlTrueTexts)
      [] tag = "int"   -> YamlInt(s)
      [] tag = "float" -> YamlFloat(s)
      [] tag = "str"   -> IF MayBeTimestamp(s) THEN NotModelled ELSE PyStr(s)
      [] OTHER         -> NotModelled

\* the value of a plain scalar
YamlPlain(s) == YamlPlainOf(s, YamlTag(s))

\* Scanner.scan_flow_scalar for a single-quoted scalar that starts at c[1]:
\* the index of its closing quote, 0 when the line ends first
RECURSIVE QuoteEnd(_, _)
QuoteEnd(c, j) ==
    IF j > Len(c) THEN 0
    ELSE IF c[j] # "'" THEN QuoteEnd(c, j + 1)
    ELSE IF j < Len(c) /\ c[j + 1] = "'" THEN QuoteEnd(c, j + 2)
    ELSE j

\* Scanner.scan_plain in block context: the index where the scalar that
\* starts at c[1] stops, Len(c) + 1 when it runs to the end of the line
PlainEndOf(c, e) == IF e = 0 THEN Len(c) + 1 ELSE e

PlainEnd(c, j) ==
    PlainEndOf(c, FirstOf({i \in j..Len(c) :
                              \/ c[i] = ":" /\ FollowedBySpace(c, i)
                              \/ c[i] = "#" /\ i > 1 /\ c[i - 1] = " "}))

\* Scanner.check_plain: may a plain scalar start at c[1]
PlainStart(c) ==
    \/ c[1] \notin (StartIndicators \cup {"-", "?", ":"})
    \/ (c[1] \in {"-", "?", ":"} /\ ~FollowedBySpace(c, 1))

\* what may follow a complete node on its line: blanks, then a comment
NothingFollows(rest) == LStrip(rest) = <<>> \/ LStrip(rest)[1] = "#"

\* a token that is an error wherever a node may start
BadStart(c) == c[1] \in {"*", "%", "@", ",", "]", "}"}

\* a single-quoted scalar whose closing quote is at e (0: the line ends first)
YamlQuotedNode(c, e, laterQuote) ==
    IF e = 0 THEN (IF laterQuote THEN NotModelled ELSE YamlError)
    ELSE IF ~NothingFollows(Drop(c, e)) THEN YamlError
    ELSE PyStr(Replace(SubSeq(c, 2, e - 1), <<"'", "'">>, <<"'">>))

\* a plain scalar that stops before e
YamlPlainNode(c, e) ==
    IF e <= Len(c) /\ c[e] = ":" THEN YamlError
    ELSE YamlPlain(RStrip(Take(c, e - 1)))

\* a node written on one line, c starting at its first character: its
\* value, or the error the parser raises
YamlNode(c, laterQuote) ==
    IF c[1] = "'" THEN YamlQuotedNode(c, QuoteEnd(c, 2), laterQuote)
    ELSE IF c[1] \in {"[", "{"} THEN
        IF Len(c) >= 2 /\ Take(c, 2) = <<"[", "]">> /\ NothingFollows(Drop(c, 2))
        THEN PyList(<<>>)
        ELSE IF Len(c) >= 2 /\ Take(c, 2) = <<"{", "}">> /\ NothingFollows(Drop(c, 2))
        THEN PyMap(<<>>)
        ELSE NotModelled
    ELSE IF BadStart(c) THEN YamlError
    ELSE IF ~PlainStart(c) THEN
        IF c[1] \in {"-", ":"} THEN YamlError ELSE NotModelled
    ELSE YamlPlainNode(c, PlainEnd(c, 1))

----------------------------------------------------------------------------
(* util/config.py: tryto_eval and transform_value *)

EvalWord == <<"e", "v", "a", "l", "(">>

\* RE_OP_STRING.search(value) is not None
HasOperator(s) == \E i \in 1..Len(s) : s[i] \in {"+", "-", "*", "/", "%"}

\* RE_EVAL_STRING.findall(value): the <<bracket, eval_str>> pairs.  The lazy
\* eval_str ends at the first ")" after the marker, less the bracket
\* character when that stands right before it.
RECURSIVE EvalFindAll(_)

\* the marker whose eval_str starts at b and whose ")" is at p (0 if none)
EvalFindClosed(s, q, b, p) ==
    IF p = 0 THEN <<>>
    ELSE <<<<q, SubSeq(s, b, IF q # <<>> /\ p - 1 >= b /\ s[p - 1] = q[1]
                             THEN p - 2 ELSE p - 1)>>>>
         \o EvalFindAll(Drop(s, p))

EvalFindQuoted(s, a, q) == EvalFindClosed(s, q, a + Len(q), FindFrom(s, <<")">>, a + Len(q)))

\* the marker "eval(" at i (0 if none)
EvalFindAt(s, i) ==
    IF i = 0 THEN <<>>
    ELSE EvalFindQuoted(s, i + 5,
                        IF i + 5 <= Len(s) /\ s[i + 5] \in QuoteChars
                        THEN <<s[i + 5]>> ELSE <<>>)

EvalFindAll(s) == EvalFindAt(s, FindFrom(s, EvalWord, 1))

ParseError(text) == PyErr("Exception", text)

\* the loop of lines 67-76 over the results still to handle; cur is `value`
RECURSIVE EvalLoop(_, _)

\* line 73: value = eval(value.replace(strlook, strrepl))
EvalLoopNew(results, e, new) ==
    IF IsErr(new) THEN ParseError(e) ELSE EvalLoop(new, Tail(results))

\* lines 68-72: inner is eval(eval_str)
EvalLoopStep(cur, results, q, e, inner) ==
    IF IsErr(inner) \/ cur.t # "str" THEN ParseError(e)
    ELSE EvalLoopNew(results, e,
                     PyEval(Replace(cur.v, EvalWord \o q \o e \o q \o <<")">>,
                                    PyStrOf(inner))))

EvalLoop(cur, results) ==
    IF results = <<>> THEN cur
    ELSE EvalLoopStep(cur, results, results[1][1], results[1][2], PyEval(results[1][2]))

\* lines 57-62: the value r of eval(value) when that succeeds
tryto_eval_plain(s, r) ==
    IF IsErr(r) THEN PyStr(s)
    ELSE IF r.t = "tuple" THEN PyList(r.v)
    ELSE r

tryto_eval_found(s, results) ==
    IF results = <<>> THEN
        IF ~HasOperator(s) THEN tryto_eval_plain(s, PyEval(s)) ELSE PyStr(s)
    ELSE EvalLoop(PyStr(s), results)

\* tryto_eval(value) for a text value
tryto_eval(s) == tryto_eval_found(s, EvalFindAll(s))

\* lines 89: the stripped non-empty segments
RECURSIVE Segments(_)
Segments(parts) ==
    IF parts = <<>> THEN <<>>
    ELSE (IF parts[1] # <<>> THEN <<Strip(parts[1])>> ELSE <<>>) \o Segments(Tail(parts))

\* lines 92-96 for one segment: <<"raise", exception>>, <<"rep", n, text>> for
\* int(nb) * [val], or <<"one", text>> when the segment is kept
ExpandCount(nb, parts) ==
    IF IsErr(nb) THEN <<"raise", nb>> ELSE <<"rep", nb.v, parts[2]>>

ExpandParts(li, parts) ==
    IF Len(parts) # 2 THEN <<"raise", PyErr("ValueError", li.v)>>
    ELSE ExpandCount(IntOfText(parts[1]), parts)

ExpandItemOf(seg, li) ==
    IF IsErr(li) THEN <<"raise", li>>
    ELSE IF li.t = "str" /\ Contains(li.v, "*") THEN ExpandParts(li, Split(li.v, "*"))
    ELSE <<"one", seg>>

ExpandItem(seg) == ExpandItemOf(seg, tryto_eval(seg))

\* lines 100-111 for one entry of str_list: the values it contributes, n
\* times tryto_eval(text), or the text itself when that raises
FlattenValue(n, text, r) == [i \in 1..n |-> IF IsErr(r) THEN PyStr(text) ELSE r]

FlattenText(n, text) == FlattenValue(n, text, tryto_eval(text))

FlattenItem(it) ==
    FlattenText(IF it[1] # "rep" THEN 1 ELSE IF it[2] < 0 THEN 0 ELSE it[2],
                IF it[1] # "rep" THEN it[2] ELSE it[3])

RECURSIVE FlattenAll(_)
FlattenAll(items) ==
    IF items = <<>> THEN <<>>
    ELSE FlattenItem(items[1]) \o FlattenAll(Tail(items))

\* lines 86-111: the list a text with a comma or an asterisk stands for
TextToListBad(items, bad) ==
    IF bad # {} THEN items[FirstOf(bad)][2] ELSE PyList(FlattenAll(items))

TextToListItems(items) ==
    TextToListBad(items, {i \in 1..Len(items) : items[i][1] = "raise"})

TextToListSegs(segs) == TextToListItems([i \in 1..Len(segs) |-> ExpandItem(segs[i])])

TextToList(s) == TextToListSegs(Segments(Split(s, ",")))

\* ApplyDefault without line 120's forced type
ApplyDefault_Unforced(value, default) ==
    IF value.t = "none" THEN default ELSE value

\* lines 115-122: the default and the forced type
ApplyDefault(value, default) ==
    IF value.t = "none" THEN default
    ELSE IF default.t # "none" /\ value.t # default.t THEN Convert(default.t, value)
    ELSE value

\* lines 115-122 on the value v2 of lines 83-113
transform_second(v2, default) == IF IsErr(v2) THEN v2 ELSE ApplyDefault(v2, default)

\* lines 86-113 on the value v1 of lines 83-84
transform_first(v1, default) ==
    IF IsErr(v1) THEN v1
    ELSE transform_second(IF v1.t # "str" THEN v1
                          ELSE IF Contains(v1.v, ",") \/ Contains(v1.v, "*")
                               THEN TextToList(v1.v)
                               ELSE tryto_eval(v1.v),
                          default)

transform_value(value, default) ==
    transform_first(IF value.t = "str" THEN tryto_eval(value.v) ELSE value, default)

----------------------------------------------------------------------------
(* util/config.py: SmartOrderedDict and the ConfigStore lookups *)

\* position of key k among the pairs m, 0 when absent
MapIndex(m, k) ==
    IF \E i \in 1..Len(m) : m[i][1] = k
    THEN CHOOSE i \in 1..Len(m) : m[i][1] = k
    ELSE 0

\* key in dict
MapHas(m, k) == MapIndex(m, k) # 0

\* OrderedDict.__setitem__: a known key keeps its place, a new one goes last
MapPut(m, k, v) ==
    IF MapHas(m, k) THEN [m EXCEPT ![MapIndex(m, k)] = <<k, v>>]
    ELSE Append(m, <<k, v>>)

\* SmartOrderedDict.__getitem__ with __missing__: an absent key reads None
SodGet(m, k) == IF MapHas(m, k) THEN m[MapIndex(m, k)][2] ELSE PyNone

\* SmartOrderedDict.__setitem__: the pairs after self[k] = v, or the
\* exception transform_value raises
SodPut(m, k, c) == IF IsErr(c) THEN c ELSE PyMap(MapPut(m, k, c))

SodSetItem(m, k, v) == SodPut(m, k, transform_value(v, PyNone))

\* SmartOrderedDict.update(other) on the pairs of self and other, lines
\* 136-150; the new pairs, or the exception transform_value raises
RECURSIVE SodUpdate(_, _)

\* update that lets a key already present keep its value
SodUpdate_KeepExisting(self, other) ==
    IF other = <<>> THEN PyMap(self)
    ELSE LET key == other[1][1]
             o_val == other[1][2]
             s_val == SodGet(self, key)
             step == IF MapHas(self, key) /\ s_val.t = "map" /\ o_val.t = "map"
                     THEN LET sub == SodUpdate(s_val.v, o_val.v) IN
                          IF IsErr(sub) THEN sub
                          ELSE PyMap(MapPut(self, key, sub))
                     ELSE IF MapHas(self, key) THEN PyMap(self)
                     ELSE SodSetItem(self, key, o_val)
         IN  IF IsErr(step) THEN step ELSE SodUpdate(step.v, Tail(other))

\* update that overwrites a mapping instead of merging into it
SodUpdate_Overwrite(self, other) ==
    IF other = <<>> THEN PyMap(self)
    ELSE LET step == SodSetItem(self, other[1][1], other[1][2]) IN
         IF IsErr(step) THEN step ELSE SodUpdate(step.v, Tail(other))

\* lines 138-150 for one key of other: s_val is self[key]
SodUpdateKey(self, key, o_val, s_val) ==
    IF MapHas(self, key) /\ s_val.t = "map" /\ o_val.t = "map"
    THEN SodPut(self, key, SodUpdate(s_val.v, o_val.v))
    ELSE SodSetItem(self, key, o_val)

SodUpdateNext(step, other) ==
    IF IsErr(step) THEN step ELSE SodUpdate(step.v, Tail(other))

SodUpdate(self, other) ==
    IF other = <<>> THEN PyMap(self)
    ELSE SodUpdateNext(SodUpdateKey(self, other[1][1], other[1][2],
                                    SodGet(self, other[1][1])), other)

----------------------------------------------------------------------------
(* PyYAML as config.py uses it: yaml.load of a block-style document, every *)
(* mapping built as a SmartOrderedDict (construct_mapping)                 *)

IndentOf(line) == RunOf(line, {" "})

ContentOf(line) == Drop(line, IndentOf(line))

RECURSIVE TextLines(_)
TextLines(parts) ==
    IF parts = <<>> THEN <<>>
    ELSE (IF ContentOf(parts[1]) = <<>> \/ ContentOf(parts[1])[1] = "#"
          THEN <<>> ELSE <<parts[1]>>)
         \o TextLines(Tail(parts))

IsEntry(c) == c # <<>> /\ c[1] = "-" /\ FollowedBySpace(c, 1)

LaterQuote(lines, i) == \E j \in (i + 1)..Len(lines) : Contains(lines[j], "'")

PR2(val, i) == [val |-> val, i |-> i]

\* a single-quoted key whose closing quote is at e, followed by `after`
KeyQuoted(c, e, after, laterQuote) ==
    IF e = 0
    THEN [key |-> IF laterQuote THEN NotModelled ELSE YamlError, rest |-> <<>>]
    ELSE IF after # <<>> /\ after[1] = ":" /\ FollowedBySpace(after, 1)
    THEN [key |-> PyStr(Replace(SubSeq(c, 2, e - 1), <<"'", "'">>, <<"'">>)),
          rest |-> Tail(after)]
    ELSE [key |-> YamlError, rest |-> <<>>]

KeyQuotedEnd(c, e, laterQuote) ==
    KeyQuoted(c, e, IF e = 0 THEN <<>> ELSE LStrip(Drop(c, e)), laterQuote)

\* a plain key that stops before e
KeyPlain(c, e) ==
    IF e <= Len(c) /\ c[e] = ":"
    THEN [key |-> YamlPlain(RStrip(Take(c, e - 1))), rest |-> Drop(c, e)]
    ELSE [key |-> YamlError, rest |-> <<>>]

\* the key of a mapping line and the text after its colon:
\* [key, rest], key being an error when the line has no valid key
KeyOf(c, laterQuote) ==
    IF IsEntry(c) THEN [key |-> YamlError, rest |-> <<>>]
    ELSE IF c[1] = "'" THEN KeyQuotedEnd(c, QuoteEnd(c, 2), laterQuote)
    ELSE IF BadStart(c) THEN [key |-> YamlError, rest |-> <<>>]
    ELSE IF ~PlainStart(c) THEN [key |-> NotModelled, rest |-> <<>>]
    ELSE KeyPlain(c, PlainEnd(c, 1))

\* an item of a block sequence written after its dash
SeqItem(ic, laterQuote) ==
    IF IsEntry(ic) THEN NotModelled
    ELSE IF ~IsErr(KeyOf(ic, laterQuote).key) THEN NotModelled
    ELSE YamlNode(ic, laterQuote)

\* a line that starts a scalar and holds no key
ScalarLine(c) ==
    /\ KeyOf(c, FALSE).key = YamlError
    /\ (c[1] = "'" \/ (~BadStart(c) /\ PlainStart(c)))

RECURSIVE ParseSeq(_, _, _, _)

ParseSeqItem(lines, i, indent, acc, item) ==
    IF IsErr(item) THEN PR2(item, i)
    ELSE ParseSeq(lines, i + 1, indent, Append(acc, item))

\* the entry of line i, ic being the text after its dash
ParseSeqEntry(lines, i, indent, acc, ic) ==
    ParseSeqItem(lines, i, indent, acc,
                 IF ic = <<>> \/ ic[1] = "#" THEN PyNone
                 ELSE SeqItem(ic, LaterQuote(lines, i)))

ParseSeq(lines, i, indent, acc) ==
    IF i > Len(lines) \/ IndentOf(lines[i]) < indent THEN PR2(PyList(acc), i)
    ELSE IF IndentOf(lines[i]) > indent THEN PR2(NotModelled, i)
    ELSE IF ~IsEntry(ContentOf(lines[i])) THEN PR2(PyList(acc), i)
    ELSE ParseSeqEntry(lines, i, indent, acc, LStrip(Tail(ContentOf(lines[i]))))

RECURSIVE ParseMap(_, _, _, _)

\* the node of the key of line i: a scalar on the line (r is its value read
\* without regard to later lines), or the block below it
ParseMapValue(lines, i, indent, vv, more, nextIndent, nextEntry, r) ==
    IF vv = <<>> \/ vv[1] = "#"
    THEN IF more /\ nextEntry /\ nextIndent >= indent
         THEN ParseSeq(lines, i + 1, nextIndent, <<>>)
         ELSE IF more /\ nextIndent > indent
         THEN IF ScalarLine(ContentOf(lines[i + 1]))
              THEN PR2(NotModelled, i + 1)
              ELSE ParseMap(lines, i + 1, nextIndent, <<>>)
         ELSE PR2(PyNone, i + 1)
    ELSE IF more /\ nextIndent > indent /\ ~IsErr(r[1])
         THEN PR2(NotModelled, i + 1)
         ELSE PR2(r[2], i + 1)

ParseMapPut(lines, i, indent, acc, k, val) ==
    IF IsErr(k.key) THEN PR2(k.key, i)
    ELSE IF k.key.t \notin {"str", "int"} THEN PR2(NotModelled, i)
    ELSE IF IsErr(val.val) THEN PR2(val.val, i)
    ELSE ParseMap(lines, val.i, indent, Append(acc, <<k.key, val.val>>))

ParseMapAfter(lines, i, indent, acc, k, vv, more) ==
    ParseMapPut(lines, i, indent, acc, k,
                ParseMapValue(lines, i, indent, vv, more,
                              IF more THEN IndentOf(lines[i + 1]) ELSE 0,
                              more /\ IsEntry(ContentOf(lines[i + 1])),
                              [j \in 1..2 |-> YamlNode(vv, j = 2 /\ LaterQuote(lines, i))]))

ParseMapKey(lines, i, indent, acc, k) ==
    ParseMapAfter(lines, i, indent, acc, k, LStrip(k.rest), i + 1 <= Len(lines))

ParseMap(lines, i, indent, acc) ==
    IF i > Len(lines) \/ IndentOf(lines[i]) < indent THEN PR2(PyMap(acc), i)
    ELSE IF IndentOf(lines[i]) > indent THEN PR2(NotModelled, i)
    ELSE ParseMapKey(lines, i, indent, acc,
                     KeyOf(ContentOf(lines[i]), LaterQuote(lines, i)))

\* SmartOrderedDict(pairs): the pairs set one after the other
RECURSIVE SetItems(_, _)

SetItemsNext(r, pairs) == IF IsErr(r) THEN r ELSE SetItems(r.v, Tail(pairs))

SetItems(acc, pairs) ==
    IF pairs = <<>> THEN PyMap(acc)
    ELSE SetItemsNext(SodSetItem(acc, pairs[1][1], pairs[1][2]), pairs)

\* the constructor on a parsed node: the nodes below are constructed first,
\* in document order, then construct_mapping sets this mapping's pairs
RECURSIVE Construct(_)

ConstructOf(x, kids, bad) ==
    IF bad # {} THEN kids[FirstOf(bad)]
    ELSE IF x.t = "list" THEN PyList(kids)
    ELSE SetItems(<<>>, [i \in 1..Len(x.v) |-> <<x.v[i][1], kids[i]>>])

ConstructKids(x, kids) == ConstructOf(x, kids, {i \in 1..Len(x.v) : IsErr(kids[i])})

Construct(x) ==
    IF x.t \notin {"map", "list"} THEN x
    ELSE ConstructKids(x, [i \in 1..Len(x.v) |->
                              Construct(IF x.t = "map" THEN x.v[i][2] ELSE x.v[i])])

\* the document once its mapping is parsed: r is the tree and the line after
YamlLoadParsed(lines, r) ==
    IF ~IsErr(r.val) /\ r.i <= Len(lines) THEN YamlError
    ELSE Construct(r.val)

\* the document whose first line has the content c
YamlLoadFirst(lines, c) ==
    IF IsEntry(c) \/ StartsWith(c, <<"-", "-", "-">>)
       \/ StartsWith(c, <<".", ".", ".">>)
    THEN NotModelled
    ELSE IF ScalarLine(c)
    THEN IF Len(lines) = 1 THEN YamlNode(c, FALSE) ELSE NotModelled
    ELSE YamlLoadParsed(lines, ParseMap(lines, 1, IndentOf(lines[1]), <<>>))

YamlLoadLines(text, lines) ==
    IF IsUnmodelled(text) \/ Contains(text, "\t") THEN NotModelled
    ELSE IF lines = <<>> THEN PyNone
    ELSE YamlLoadFirst(lines, ContentOf(lines[1]))

\* yaml.load(text)
YamlLoad(text) == YamlLoadLines(text, TextLines(Split(text, "\n")))

----------------------------------------------------------------------------
(* string.Template and LocalTemplate, util/config.py lines 36-46:          *)
(* safe_substitute(mapping)                                                 *)

\* mapping[name] as safe_substitute reads it, <<found, str(value)>>: the
\* environment is a sequence of <<name, text>> pairs, and a SmartOrderedDict
\* never misses a key (__missing__ answers None)
Lookup(mapping, name) ==
    IF mapping.t = "map"
    THEN <<TRUE, PyStrOf(SodGet(mapping.v, PyStr(name)))>>
    ELSE IF \E i \in 1..Len(mapping.v) : mapping.v[i][1] = name
    THEN <<TRUE, mapping.v[CHOOSE i \in 1..Len(mapping.v) : mapping.v[i][1] = name][2]>>
    ELSE <<FALSE, <<>>>>

\* the pattern delim(?:delim | id | open id close | ), applied from left to
\* right: an escape gives one delimiter, a name its value (the match itself
\* when the mapping misses it), anything else is left as it is
\* variant of Substituted: a name that is found is replaced by the name
\* and not by its value
Substituted_ByName(found, match) == IF found[1] THEN Tail(match) ELSE match

\* what replaces a name: its value, or the match itself
Substituted(found, match) == IF found[1] THEN found[2] ELSE match

RECURSIVE SafeSubstitute(_, _, _, _, _)
SafeSubstitute(s, delim, open, close, mapping) ==
    LET at == FindFrom(s, <<delim>>, 1)
        m == Drop(s, at - 1)                  \* the text from the delimiter on
        r == Drop(s, at)
        n == IdRun(r)
        b == IF r = <<>> THEN 0 ELSE IdRun(Tail(r))
    IN  IF at = 0 THEN s
        ELSE Take(s, at - 1) \o
             (IF r # <<>> /\ r[1] = delim
              THEN <<delim>> \o SafeSubstitute(Tail(r), delim, open, close, mapping)
              ELSE IF r # <<>> /\ IsAlpha(r[1])
              THEN Substituted(Lookup(mapping, Take(r, n)), Take(m, n + 1))
                   \o SafeSubstitute(Drop(r, n), delim, open, close, mapping)
              ELSE IF Len(r) >= b + 2 /\ r[1] = open /\ IsAlpha(r[2]) /\ r[b + 2] = close
              THEN Substituted(Lookup(mapping, SubSeq(r, 2, b + 1)), Take(m, b + 3))
                   \o SafeSubstitute(Drop(r, b + 2), delim, open, close, mapping)
              ELSE <<delim>> \o SafeSubstitute(r, delim, open, close, mapping))

\* line 271: string.Template(conf_str).safe_substitute(os.environ)
EnvSubstitute(text, environ) ==
    SafeSubstitute(text, "$", "{", "}", [t |-> "env", v |-> environ])

\* line 292: LocalTemplate(conf_str_old).safe_substitute(self._values)
LocalSubstitute(conf_str_old, values) ==
    SafeSubstitute(conf_str_old, "%", "(", ")", PyMap(values))

----------------------------------------------------------------------------
(* util/config.py: ConfigStore.read_config_file *)

EndsWith(s, p) == Len(s) > Len(p) /\ SubSeq(s, Len(s) - Len(p) + 1, Len(s)) = p

\* lines 253-265: the text read from path, a file of the file system fs
\* (a sequence of <<name, text>> pairs).  A path that is neither text nor
\* readable falls through line 268, which raises nothing, to the use of
\* the unbound conf_str
OpenFile(fs, path) ==
    IF path.t # "str" THEN PyErr("UnboundLocalError", <<>>)
    ELSE IF ~(EndsWith(path.v, <<".", "y", "a", "m", "l">>)
              \/ EndsWith(path.v, <<".", "y", "m", "l">>))
    THEN PyErr("NotImplementedError", <<>>)
    ELSE IF \E i \in 1..Len(fs) : fs[i][1] = path.v
    THEN PyStr(fs[CHOOSE i \in 1..Len(fs) : fs[i][1] = path.v][2])
    ELSE PyErr("IOError", path.v)

IncludeKey == PyStr(<<"i", "n", "c", "l", "u", "d", "e">>)

\* lines 277-281: the sequence `for i_file in include_files` runs over
IncludeFilesOf(f) ==
    CASE f.t = "err"  -> f
      [] f.t = "none" -> PyList(<<>>)
      [] f.t = "str"  -> PyList(<<f>>)
      [] f.t \in {"list", "tuple"} -> PyList(f.v)
      [] f.t = "map"  -> PyList([i \in 1..Len(f.v) |-> f.v[i][1]])
      [] OTHER        -> PyErr("TypeError", <<>>)

IncludeFiles(loaded) ==
    IncludeFilesOf(IF loaded.t = "map" THEN SodGet(loaded.v, IncludeKey)
                   ELSE PyErr("AttributeError", <<>>))

\* line 285: del config_dict["include"], done when the key holds a value
DelInclude(pairs) ==
    IF SodGet(pairs, IncludeKey).t = "none" THEN pairs
    ELSE SelectSeq(pairs, LAMBDA p : p[1] # IncludeKey)

MaxRounds == 5
MaxText == 60

\* lines 291-295, one pass of the loop: whether the text is stable, and
\* otherwise the reloaded tree
RoundOf(values, conf_str_old, conf_str_new) ==
    IF IsUnmodelled(conf_str_old) THEN [stop |-> FALSE, values |-> NotModelled]
    ELSE IF conf_str_new = conf_str_old THEN [stop |-> TRUE, values |-> PyMap(values)]
    ELSE [stop |-> FALSE, values |-> YamlLoad(conf_str_new)]

RoundOld(values, conf_str_old) ==
    RoundOf(values, conf_str_old, LocalSubstitute(conf_str_old, values))

Round(values) == RoundOld(values, YamlDump(PyMap(values)))

\* lines 290-295 run to the end, given up after n reloads or when the text
\* outgrows MaxText (a reference cycle makes it grow without end)
RECURSIVE FixLoop(_, _)

FixLoopNext(r, n) ==
    IF r.stop \/ IsErr(r.values) THEN r.values
    ELSE IF r.values.t # "map" \/ n = 0 THEN NotModelled
    ELSE IF Len(YamlDump(r.values)) > MaxText THEN NotModelled
    ELSE FixLoop(r.values.v, n - 1)

FixLoop(values, n) == FixLoopNext(Round(values), n)

\* lines 283-295 on the loaded tree, whose include_files are i_files
ReadStoreMerged(merged) ==
    IF IsErr(merged) THEN merged ELSE FixLoop(merged.v, MaxRounds)

ReadStoreFiles(i_dict, i_files) ==
    IF IsErr(i_dict) THEN i_dict
    ELSE IF IsErr(i_files) THEN i_files
    ELSE IF i_files.v # <<>> THEN NotModelled
    ELSE ReadStoreMerged(SodUpdate(<<>>, i_dict.v))

ReadStoreDict(i_dict) == ReadStoreFiles(i_dict, IncludeFiles(i_dict))

ReadStoreText(text, environ) ==
    ReadStoreDict(IF IsErr(text) THEN text ELSE YamlLoad(EnvSubstitute(text.v, environ)))

\* ConfigStore(path)._values for a file that includes no other, line 283
ReadStore(fs, environ, path) == ReadStoreText(OpenFile(fs, path), environ)

\* "/".join(args).split("/")
FlattenArgs(args) == Split(JoinText(args, <<"/">>), "/")

\* value[arg] inside ConfigStore.get
Subscript(value, arg) ==
    IF value.t = "map" THEN SodGet(value.v, PyStr(arg))
    ELSE PyErr("TypeError", arg)

\* the loop of ConfigStore.get over the path still to walk
RECURSIVE GetWalk(_, _, _, _)
GetWalk(value, path, default, raise_keyerror) ==
    LET nxt == IF path = <<>> THEN value ELSE Subscript(value, path[1]) IN
    IF path = <<>> \/ (nxt.t = "none" /\ ~raise_keyerror)
    THEN transform_value(nxt, default)
    ELSE IF IsErr(nxt) THEN nxt
    ELSE IF nxt.t = "none" THEN PyErr("KeyError", path[1])
    ELSE GetWalk(nxt, Tail(path), default, raise_keyerror)

\* ConfigStore.get with one default for every key
ConfigGet_DefaultFirst(values, args, default, raise_keyerror) ==
    IF default.t # "none" /\ ~raise_keyerror THEN default
    ELSE GetWalk(PyMap(values), FlattenArgs(args), default, raise_keyerror)

\* ConfigStore.get that tells an absent key from a null one
ConfigGet_AbsentOnly(values, args, default, raise_keyerror) ==
    IF Len(args) = 1 /\ MapHas(values, PyStr(args[1]))
          /\ SodGet(values, PyStr(args[1])).t = "none" /\ raise_keyerror
    THEN PyNone
    ELSE GetWalk(PyMap(values), FlattenArgs(args), default, raise_keyerror)

\* ConfigStore.get(*args, default=..., raise_keyerror=...)
ConfigGet(values, args, default, raise_keyerror) ==
    GetWalk(PyMap(values), FlattenArgs(args), default, raise_keyerror)

\* ConfigStore.__getitem__
ConfigGetItem(values, key) == ConfigGet(values, <<key>>, PyNone, TRUE)

\* ConfigStore.__contains__: only KeyError is caught
ConfigContainsOf(r) ==
    IF IsErr(r) THEN (IF r.v[1] = "KeyError" THEN PyBool(FALSE) ELSE r)
    ELSE PyBool(TRUE)

ConfigContains(values, key) == ConfigContainsOf(ConfigGetItem(values, key))

Undefined == [t |-> "undef", v |-> 0]

Op(name, key, arg, default, out) ==
    [name |-> name, key |-> key, arg |-> arg, default |-> default, out |-> out]

Keys == {<<"k">>, <<"t">>}

SetValues ==
    { PyNone, PyInt(1), PyList(<<PyInt(1), PyInt(2)>>),
      PyStr(<<>>), PyStr(<<"t">>), PyStr(<<"N", "o", "n", "e">>),
      PyStr(<<"2", "*", "3">>), PyStr(<<"*">>),
      PyStr(<<"\"", "'", "2", "'", "\"">>),
      PyStr(EvalWord \o <<"3", "+", "4", ")">>) }

\* config[key] = value
StSetItem(key, value) ==
    \E r \in {SodSetItem(st_values, PyStr(key), value)} :
    /\ st_values' = IF IsErr(r) THEN st_values ELSE r.v
    /\ st_hist' = IF IsErr(r) THEN st_hist ELSE [st_hist EXCEPT ![key] = value]
    /\ st_op' = Op("setitem", key, value, PyNone, IF IsErr(r) THEN r ELSE PyNone)
    /\ UNCHANGED <<pyver, gvars, nvars, cvars, tvars, rvars>>

\* config.update_default(key, value)
StUpdateDefault(key, value) ==
    \E absent \in {~MapHas(st_values, PyStr(key))} :
    \E r \in {IF absent THEN SodSetItem(st_values, PyStr(key), value)
              ELSE PyMap(st_values)} :
    /\ st_values' = IF IsErr(r) THEN st_values ELSE r.v
    /\ st_hist' = IF IsErr(r) \/ ~absent THEN st_hist
                  ELSE [st_hist EXCEPT ![key] = value]
    /\ st_op' = Op("update_default", key, value, PyNone,
                   IF IsErr(r) THEN r ELSE PyNone)
    /\ UNCHANGED <<pyver, gvars, nvars, cvars, tvars, rvars>>

\* config[key]
StGetItem(key) ==
    /\ st_op' = Op("getitem", key, PyNone, PyNone, ConfigGetItem(st_values, key))
    /\ UNCHANGED <<pyver, gvars, nvars, cvars, tvars, rvars, st_values, st_hist>>

\* key in config
StContains(key) ==
    /\ st_op' = Op("contains", key, PyNone, PyNone, ConfigContains(st_values, key))
    /\ UNCHANGED <<pyver, gvars, nvars, cvars, tvars, rvars, st_values, st_hist>>

\* config.get(key, default=default); default None is get(key)
StGet(key, default) ==
    /\ st_op' = Op("get", key, PyNone, default,
                   ConfigGet(st_values, <<key>>, default, FALSE))
    /\ UNCHANGED <<pyver, gvars, nvars, cvars, tvars, rvars, st_values, st_hist>>

\* the nested paths get is called with: k/t
Paths == { <<"k", "/", "t">> }

\* config.get(path, default=default) for a path of nested keys
StGetNested(path, default) ==
    /\ st_op' = Op("get_nested", path, PyNone, default,
                   ConfigGet(st_values, <<path>>, default, FALSE))
    /\ UNCHANGED <<pyver, gvars, nvars, cvars, tvars, rvars, st_values, st_hist>>

----------------------------------------------------------------------------
(* namelist/wrf.py: calc_time_step, one action per step of its loop *)

MaxK == 400

\* variant of FirstK: the search starts from a target of 6*dx/1000 seconds
FirstK_SixDx(dx, interval_s) ==
    RatCeil(RatDiv(Rat(interval_s, 1), Rat(6 * dx, 1000)))

\* line 37: k = int(math.ceil(interval_s/(float(5*dx/1000.))))
FirstK(dx, interval_s) == RatCeil(RatDiv(Rat(interval_s, 1), Rat(5 * dx, 1000)))

\* line 38: interval_s/float(k) - float(interval_s/k) > 1e-12.  With integer
\* arguments interval_s/k floors on Python 2 and is the true quotient on
\* Python 3, where the two sides are the same float.
LoopTest(interval_s, k) ==
    IF pyver = 2 THEN (interval_s % k) > ((k \div 1000000) \div 1000000)
    ELSE FALSE

\* line 40: interval_s / k
StepResult(interval_s, k) ==
    IF pyver = 2 THEN Rat(interval_s \div k, 1) ELSE Rat(interval_s, k)

TsStart ==
    /\ ts_pc = "start"
    /\ ts_k' = FirstK(ts_dx, ts_int)
    /\ ts_pc' = "loop"
    /\ UNCHANGED <<pyver, gvars, nvars, cvars, svars, rvars, ts_dx, ts_int, ts_out>>

TsLoop ==
    /\ ts_pc = "loop"
    /\ LoopTest(ts_int, ts_k)
    /\ ts_k < MaxK
    /\ ts_k' = ts_k + 1
    /\ UNCHANGED <<pyver, gvars, nvars, cvars, svars, rvars, ts_pc, ts_dx, ts_int, ts_out>>

TsReturn ==
    /\ ts_pc = "loop"
    /\ ~LoopTest(ts_int, ts_k)
    /\ ts_out' = StepResult(ts_int, ts_k)
    /\ ts_pc' = "done"
    /\ UNCHANGED <<pyver, gvars, nvars, cvars, svars, rvars, ts_dx, ts_int, ts_k>>

----------------------------------------------------------------------------
(* Python lists and numbers as namelist/*.py and util/misc.py use them *)

\* list[i] for a Python index i: a negative i counts from the end
PyItem(l, i) ==
    IF i >= 0 /\ i < Len(l) THEN l[i + 1]
    ELSE IF i < 0 /\ -i <= Len(l) THEN l[Len(l) + i + 1]
    ELSE PyErr("IndexError", <<>>)

\* list[i:] for a Python index i
PySliceFrom(l, i) ==
    IF i >= 0 THEN Drop(l, IF i > Len(l) THEN Len(l) ELSE i)
    ELSE Drop(l, IF -i >= Len(l) THEN 0 ELSE Len(l) + i)

\* nb * [item]
Times(nb, item) == [i \in 1..(IF nb < 0 THEN 0 ELSE nb) |-> item]

\* the first exception among the items of a sequence, PyNone when none
FirstErr(l) ==
    IF \E i \in 1..Len(l) : IsErr(l[i])
    THEN l[CHOOSE i \in 1..Len(l) : IsErr(l[i]) /\ \A j \in 1..(i - 1) : ~IsErr(l[j])]
    ELSE PyNone

\* a list built item by item: the list, or the first exception an item raised
ListOf(l) == IF IsErr(FirstErr(l)) THEN FirstErr(l) ELSE PyList(l)

\* math.ceil(x): a float on Python 2, an int on Python 3
MathCeil(q) == IF pyver = 2 THEN PyFloat(Rat(RatCeil(q), 1)) ELSE PyInt(RatCeil(q))

\* a / b for two ints: floor division on Python 2, true division on Python 3
IntDiv(a, b) ==
    IF b = 0 THEN PyErr("ZeroDivisionError", <<>>)
    ELSE IF pyver = 2 THEN PyInt(RatFloor(Rat(a, b))) ELSE PyFloat(Rat(a, b))

\* util/misc.py: to_list, lines 14-18, on the item of lines 10-12
to_list_of(item, nb) ==
    IF IsErr(item) THEN item
    ELSE IF item.t # "list" THEN PyList(Times(nb, item))
    ELSE item

\* util/misc.py: to_list(item, nb), lines 7-18
to_list(item, nb) ==
    IF item.t = "str" /\ item.v = <<>> THEN PyErr("IndexError", <<>>)
    ELSE to_list_of(IF item.t = "str" /\ item.v[1] = "[" /\ item.v[Len(item.v)] = "]"
                    THEN PyEval(item.v) ELSE item, nb)

----------------------------------------------------------------------------
(* util/dates.py: read_date and advance_date *)

PyDate(y, mo, d, h, mi, s) == [t |-> "datetime", v |-> <<y, mo, d, h, mi, s>>]

IsLeap(y) == (y % 4 = 0 /\ y % 100 # 0) \/ y % 400 = 0

DaysIn(y, mo) ==
    IF mo = 2 THEN (IF IsLeap(y) THEN 29 ELSE 28)
    ELSE IF mo \in {4, 6, 9, 11} THEN 30 ELSE 31

\* datetime(year, month, day, hour, minute, second): six ints, or the
\* exception one of them carries; ValueError outside the calendar
DateTimeOf(f) ==
    IF f[1] < 1 \/ f[1] > 9999 \/ f[2] < 1 \/ f[2] > 12 \/ f[3] < 1
          \/ f[3] > DaysIn(f[1], f[2]) \/ f[4] < 0 \/ f[4] > 23 \/ f[5] < 0 \/ f[5] > 59
          \/ f[6] < 0 \/ f[6] > 59
    THEN PyErr("ValueError", <<>>)
    ELSE PyDate(f[1], f[2], f[3], f[4], f[5], f[6])

DateTime(fields) ==
    IF IsErr(FirstErr(fields)) THEN FirstErr(fields)
    ELSE DateTimeOf([i \in 1..6 |-> fields[i].v])

\* re.split("[ _T]", s) and re.split("[- /]", s): the segments between the
\* characters of seps
RECURSIVE ReSplit(_, _)
ReSplit(s, seps) ==
    LET i == FirstOf({j \in 1..Len(s) : s[j] \in seps}) IN
    IF i = 0 THEN <<s>>
    ELSE <<Take(s, i - 1)>> \o ReSplit(Drop(s, i), seps)

\* _to_int(strlist) unpacked into n names: ValueError when the count differs
ToInts(strlist, n) ==
    IF Len(strlist) # n THEN <<PyErr("ValueError", <<>>)>>
    ELSE [i \in 1..n |-> IntOfText(strlist[i])]

\* variant of HourFields: the hour part of the text is ignored
HourFields_Midnight(hour_str) == <<PyInt(0), PyInt(0), PyInt(0)>>

\* lines 47-57: hour, minute, second of hour_str
HourFields(hour_str) ==
    IF Len(hour_str) = 8 THEN ToInts(Split(hour_str, ":"), 3)
    ELSE IF Len(hour_str) = 5 THEN ToInts(Split(hour_str, ":"), 2) \o <<PyInt(0)>>
    ELSE IF Len(hour_str) = 2 THEN <<IntOfText(hour_str), PyInt(0), PyInt(0)>>
    ELSE <<PyErr("ValueError", <<>>)>>

\* lines 67-74: a date of ten characters, YYYY-MM-DD first and YYYYMMDDHH
\* when that raises ValueError
TenFields(date_str, hms, ymd) ==
    IF ~IsErr(FirstErr(ymd)) THEN ymd \o hms
    ELSE <<IntOfText(SubSeq(date_str, 1, 4)), IntOfText(SubSeq(date_str, 5, 6)),
           IntOfText(SubSeq(date_str, 7, 8)), IntOfText(SubSeq(date_str, 9, 10)),
           hms[2], hms[3]>>

\* lines 59-76: year, month, day (and the hour of YYYYMMDDHH) of date_str
DateFields(date_str, hms) ==
    IF IsErr(FirstErr(hms)) THEN <<FirstErr(hms)>>
    ELSE IF Len(date_str) = 6
    THEN <<IntOfText(SubSeq(date_str, 1, 4)), IntOfText(SubSeq(date_str, 5, 6)),
           PyInt(1)>> \o hms
    ELSE IF Len(date_str) = 8
    THEN <<IntOfText(SubSeq(date_str, 1, 4)), IntOfText(SubSeq(date_str, 5, 6)),
           IntOfText(SubSeq(date_str, 7, 8))>> \o hms
    ELSE IF Len(date_str) = 10
    THEN TenFields(date_str, hms, ToInts(ReSplit(date_str, {"-", " ", "/"}), 3))
    ELSE <<PyErr("ValueError", <<>>)>>

\* lines 40-45 on the stripped text: the date and the hour part
ReadDateParts(parts) ==
    IF Len(parts) # 2 THEN PyErr("ValueError", <<>>)
    ELSE DateTime(DateFields(parts[1], HourFields(parts[2])))

ReadDateText(s) ==
    IF Len(s) > 10 THEN ReadDateParts(ReSplit(s, {" ", "_", "T"}))
    ELSE DateTime(DateFields(s, <<PyInt(0), PyInt(0), PyInt(0)>>))

\* read_date(date_str), lines 23-78, called without hour_str
read_date(date_str) ==
    IF date_str.t = "datetime" THEN date_str
    ELSE IF date_str.t # "str" THEN PyErr("AttributeError", <<>>)
    ELSE ReadDateText(Strip(date_str.v))

\* date + timedelta: the fields f with the minutes carried into hours,
\* days, months and years
RECURSIVE Carry(_)
Carry(f) ==
    IF f[5] > 59 THEN Carry([f EXCEPT ![5] = @ - 60, ![4] = @ + 1])
    ELSE IF f[5] < 0 THEN Carry([f EXCEPT ![5] = @ + 60, ![4] = @ - 1])
    ELSE IF f[4] > 23 THEN Carry([f EXCEPT ![4] = @ - 24, ![3] = @ + 1])
    ELSE IF f[4] < 0 THEN Carry([f EXCEPT ![4] = @ + 24, ![3] = @ - 1])
    ELSE IF f[2] > 12 THEN Carry([f EXCEPT ![2] = 1, ![1] = @ + 1])
    ELSE IF f[2] < 1 THEN Carry([f EXCEPT ![2] = 12, ![1] = @ - 1])
    ELSE IF f[3] > DaysIn(f[1], f[2])
    THEN Carry([f EXCEPT ![3] = @ - DaysIn(f[1], f[2]), ![2] = @ + 1])
    ELSE IF f[3] < 1
    THEN Carry([f EXCEPT ![2] = IF f[2] = 1 THEN 12 ELSE f[2] - 1,
                         ![1] = IF f[2] = 1 THEN f[1] - 1 ELSE f[1],
                         ![3] = f[3] + DaysIn(IF f[2] = 1 THEN f[1] - 1 ELSE f[1],
                                              IF f[2] = 1 THEN 12 ELSE f[2] - 1)])
    ELSE f

\* advance_date(date, increment_h=h, increment_m=m) for whole numbers,
\* lines 87-102
advance_date(date, increment_h, increment_m) ==
    IF IsErr(read_date(date)) THEN read_date(date)
    ELSE DateTimeOf(Carry([read_date(date).v EXCEPT ![4] = @ + increment_h,
                                                    ![5] = @ + increment_m]))

----------------------------------------------------------------------------
(* namelist/namelist.py: the Namelist document and its configuration *)

\* the names the namelist classes use: configuration keys, section names
\* and the keys of the sections, as text
N == [
    max_dom |-> <<"m", "a", "x", "_", "d", "o", "m">>,
    date_s |-> <<"d", "a", "t", "e", "_", "s">>,
    date_e |-> <<"d", "a", "t", "e", "_", "e">>,
    dfi_opt |-> <<"d", "f", "i", "_", "o", "p", "t">>,
    dx |-> <<"d", "x">>,
    dy |-> <<"d", "y">>,
    met_dx |-> <<"m", "e", "t", "_", "d", "x">>,
    met_dy |-> <<"m", "e", "t", "_", "d", "y">>,
    parent_grid_ratio |-> <<"p", "a", "r", "e", "n", "t", "_", "g", "r", "i", "d", "_", "r", "a", "t", "i", "o">>,
    parent_id |-> <<"p", "a", "r", "e", "n", "t", "_", "i", "d">>,
    ndown_fine_domains |-> <<"n", "d", "o", "w", "n", "/", "f", "i", "n", "e", "_", "d", "o", "m", "a", "i", "n", "s">>,
    ndown_interval_seconds |-> <<"n", "d", "o", "w", "n", "/", "i", "n", "t", "e", "r", "v", "a", "l", "_", "s", "e", "c", "o", "n", "d", "s">>,
    ndown |-> <<"n", "d", "o", "w", "n">>,
    interval_seconds |-> <<"i", "n", "t", "e", "r", "v", "a", "l", "_", "s", "e", "c", "o", "n", "d", "s">>,
    history_interval |-> <<"h", "i", "s", "t", "o", "r", "y", "_", "i", "n", "t", "e", "r", "v", "a", "l">>,
    restart_interval |-> <<"r", "e", "s", "t", "a", "r", "t", "_", "i", "n", "t", "e", "r", "v", "a", "l">>,
    restart |-> <<"r", "e", "s", "t", "a", "r", "t">>,
    input_from_file |-> <<"i", "n", "p", "u", "t", "_", "f", "r", "o", "m", "_", "f", "i", "l", "e">>,
    frames_per_outfile |-> <<"f", "r", "a", "m", "e", "s", "_", "p", "e", "r", "_", "o", "u", "t", "f", "i", "l", "e">>,
    fine_input_stream |-> <<"f", "i", "n", "e", "_", "i", "n", "p", "u", "t", "_", "s", "t", "r", "e", "a", "m">>,
    write_hist_at_0h_rst |-> <<"w", "r", "i", "t", "e", "_", "h", "i", "s", "t", "_", "a", "t", "_", "0", "h", "_", "r", "s", "t">>,
    adjust_output_times |-> <<"a", "d", "j", "u", "s", "t", "_", "o", "u", "t", "p", "u", "t", "_", "t", "i", "m", "e", "s">>,
    ignore_iofields_warning |-> <<"i", "g", "n", "o", "r", "e", "_", "i", "o", "f", "i", "e", "l", "d", "s", "_", "w", "a", "r", "n", "i", "n", "g">>,
    iofields_filename |-> <<"i", "o", "f", "i", "e", "l", "d", "s", "_", "f", "i", "l", "e", "n", "a", "m", "e">>,
    i_parent_start |-> <<"i", "_", "p", "a", "r", "e", "n", "t", "_", "s", "t", "a", "r", "t">>,
    j_parent_start |-> <<"j", "_", "p", "a", "r", "e", "n", "t", "_", "s", "t", "a", "r", "t">>,
    e_we |-> <<"e", "_", "w", "e">>,
    e_sn |-> <<"e", "_", "s", "n">>,
    num_metgrid_levels |-> <<"n", "u", "m", "_", "m", "e", "t", "g", "r", "i", "d", "_", "l", "e", "v", "e", "l", "s">>,
    num_metgrid_soil_levels |-> <<"n", "u", "m", "_", "m", "e", "t", "g", "r", "i", "d", "_", "s", "o", "i", "l", "_", "l", "e", "v", "e", "l", "s">>,
    time_step |-> <<"t", "i", "m", "e", "_", "s", "t", "e", "p">>,
    use_adaptive_time_step |-> <<"u", "s", "e", "_", "a", "d", "a", "p", "t", "i", "v", "e", "_", "t", "i", "m", "e", "_", "s", "t", "e", "p">>,
    starting_time_step |-> <<"s", "t", "a", "r", "t", "i", "n", "g", "_", "t", "i", "m", "e", "_", "s", "t", "e", "p">>,
    min_time_step |-> <<"m", "i", "n", "_", "t", "i", "m", "e", "_", "s", "t", "e", "p">>,
    max_time_step |-> <<"m", "a", "x", "_", "t", "i", "m", "e", "_", "s", "t", "e", "p">>,
    max_step_increase_pct |-> <<"m", "a", "x", "_", "s", "t", "e", "p", "_", "i", "n", "c", "r", "e", "a", "s", "e", "_", "p", "c", "t">>,
    num_eta_levels |-> <<"n", "u", "m", "_", "e", "t", "a", "_", "l", "e", "v", "e", "l", "s">>,
    eta_levels |-> <<"e", "t", "a", "_", "l", "e", "v", "e", "l", "s">>,
    e_vert |-> <<"e", "_", "v", "e", "r", "t">>,
    diff_opt |-> <<"d", "i", "f", "f", "_", "o", "p", "t">>,
    km_opt |-> <<"k", "m", "_", "o", "p", "t">>,
    damp_opt |-> <<"d", "a", "m", "p", "_", "o", "p", "t">>,
    dampcoef |-> <<"d", "a", "m", "p", "c", "o", "e", "f">>,
    mp_physics |-> <<"m", "p", "_", "p", "h", "y", "s", "i", "c", "s">>,
    cu_physics |-> <<"c", "u", "_", "p", "h", "y", "s", "i", "c", "s">>,
    ra_lw_physics |-> <<"r", "a", "_", "l", "w", "_", "p", "h", "y", "s", "i", "c", "s">>,
    ra_sw_physics |-> <<"r", "a", "_", "s", "w", "_", "p", "h", "y", "s", "i", "c", "s">>,
    bl_pbl_physics |-> <<"b", "l", "_", "p", "b", "l", "_", "p", "h", "y", "s", "i", "c", "s">>,
    sf_sfclay_physics |-> <<"s", "f", "_", "s", "f", "c", "l", "a", "y", "_", "p", "h", "y", "s", "i", "c", "s">>,
    sf_surface_physics |-> <<"s", "f", "_", "s", "u", "r", "f", "a", "c", "e", "_", "p", "h", "y", "s", "i", "c", "s">>,
    num_land_cat |-> <<"n", "u", "m", "_", "l", "a", "n", "d", "_", "c", "a", "t">>,
    num_soil_layers |-> <<"n", "u", "m", "_", "s", "o", "i", "l", "_", "l", "a", "y", "e", "r", "s">>,
    radt |-> <<"r", "a", "d", "t">>,
    cudt |-> <<"c", "u", "d", "t">>,
    bldt |-> <<"b", "l", "d", "t">>,
    diagnostics |-> <<"d", "i", "a", "g", "n", "o", "s", "t", "i", "c", "s">>,
    namelist_wrf |-> <<"n", "a", "m", "e", "l", "i", "s", "t", "_", "w", "r", "f">>,
    dfi_backward_m |-> <<"d", "f", "i", "_", "b", "a", "c", "k", "w", "a", "r", "d", "_", "m">>,
    dfi_foreward_m |-> <<"d", "f", "i", "_", "f", "o", "r", "e", "w", "a", "r", "d", "_", "m">>,
    pywrf_store |-> <<"p", "y", "w", "r", "f", "_", "s", "t", "o", "r", "e">>,
    time_control |-> <<"t", "i", "m", "e", "_", "c", "o", "n", "t", "r", "o", "l">>,
    domains |-> <<"d", "o", "m", "a", "i", "n", "s">>,
    dynamics |-> <<"d", "y", "n", "a", "m", "i", "c", "s">>,
    physics |-> <<"p", "h", "y", "s", "i", "c", "s">>,
    dfi_control |-> <<"d", "f", "i", "_", "c", "o", "n", "t", "r", "o", "l">>,
    fdda |-> <<"f", "d", "d", "a">>,
    grid_fdda |-> <<"g", "r", "i", "d", "_", "f", "d", "d", "a">>,
    accumulated_gr |-> <<"a", "c", "c", "u", "m", "u", "l", "a", "t", "e", "d", "_", "g", "r">>,
    fine_domains |-> <<"f", "i", "n", "e", "_", "d", "o", "m", "a", "i", "n", "s">>,
    grid_id |-> <<"g", "r", "i", "d", "_", "i", "d">>,
    parent_time_step_ratio |-> <<"p", "a", "r", "e", "n", "t", "_", "t", "i", "m", "e", "_", "s", "t", "e", "p", "_", "r", "a", "t", "i", "o">>,
    start_year |-> <<"s", "t", "a", "r", "t", "_", "y", "e", "a", "r">>,
    start_month |-> <<"s", "t", "a", "r", "t", "_", "m", "o", "n", "t", "h">>,
    start_day |-> <<"s", "t", "a", "r", "t", "_", "d", "a", "y">>,
    start_hour |-> <<"s", "t", "a", "r", "t", "_", "h", "o", "u", "r">>,
    end_year |-> <<"e", "n", "d", "_", "y", "e", "a", "r">>,
    end_month |-> <<"e", "n", "d", "_", "m", "o", "n", "t", "h">>,
    end_day |-> <<"e", "n", "d", "_", "d", "a", "y">>,
    end_hour |-> <<"e", "n", "d", "_", "h", "o", "u", "r">>,
    dfi_bckstop_year |-> <<"d", "f", "i", "_", "b", "c", "k", "s", "t", "o", "p", "_", "y", "e", "a", "r">>,
    dfi_bckstop_month |-> <<"d", "f", "i", "_", "b", "c", "k", "s", "t", "o", "p", "_", "m", "o", "n", "t", "h">>,
    dfi_bckstop_day |-> <<"d", "f", "i", "_", "b", "c", "k", "s", "t", "o", "p", "_", "d", "a", "y">>,
    dfi_bckstop_hour |-> <<"d", "f", "i", "_", "b", "c", "k", "s", "t", "o", "p", "_", "h", "o", "u", "r">>,
    dfi_bckstop_minute |-> <<"d", "f", "i", "_", "b", "c", "k", "s", "t", "o", "p", "_", "m", "i", "n", "u", "t", "e">>,
    dfi_fwdstop_year |-> <<"d", "f", "i", "_", "f", "w", "d", "s", "t", "o", "p", "_", "y", "e", "a", "r">>,
    dfi_fwdstop_month |-> <<"d", "f", "i", "_", "f", "w", "d", "s", "t", "o", "p", "_", "m", "o", "n", "t", "h">>,
    dfi_fwdstop_day |-> <<"d", "f", "i", "_", "f", "w", "d", "s", "t", "o", "p", "_", "d", "a", "y">>,
    dfi_fwdstop_hour |-> <<"d", "f", "i", "_", "f", "w", "d", "s", "t", "o", "p", "_", "h", "o", "u", "r">>,
    dfi_fwdstop_minute |-> <<"d", "f", "i", "_", "f", "w", "d", "s", "t", "o", "p", "_", "m", "i", "n", "u", "t", "e">>,
    moist_adv_opt |-> <<"m", "o", "i", "s", "t", "_", "a", "d", "v", "_", "o", "p", "t">>,
    scalar_adv_opt |-> <<"s", "c", "a", "l", "a", "r", "_", "a", "d", "v", "_", "o", "p", "t">>,
    tracer_adv_opt |-> <<"t", "r", "a", "c", "e", "r", "_", "a", "d", "v", "_", "o", "p", "t">>,
    tke_adv_opt |-> <<"t", "k", "e", "_", "a", "d", "v", "_", "o", "p", "t">>,
    momentum_adv_opt |-> <<"m", "o", "m", "e", "n", "t", "u", "m", "_", "a", "d", "v", "_", "o", "p", "t">>,
    NONE_SPECIFIED |-> <<"N", "O", "N", "E", "_", "S", "P", "E", "C", "I", "F", "I", "E", "D">>,
    share |-> <<"s", "h", "a", "r", "e">>,
    wrf_core |-> <<"w", "r", "f", "_", "c", "o", "r", "e">>,
    start_date |-> <<"s", "t", "a", "r", "t", "_", "d", "a", "t", "e">>,
    end_date |-> <<"e", "n", "d", "_", "d", "a", "t", "e">>,
    geogrid |-> <<"g", "e", "o", "g", "r", "i", "d">>,
    geog_data_res |-> <<"g", "e", "o", "g", "_", "d", "a", "t", "a", "_", "r", "e", "s">>,
    map_proj |-> <<"m", "a", "p", "_", "p", "r", "o", "j">>,
    ref_lat |-> <<"r", "e", "f", "_", "l", "a", "t">>,
    ref_lon |-> <<"r", "e", "f", "_", "l", "o", "n">>,
    truelat1 |-> <<"t", "r", "u", "e", "l", "a", "t", "1">>,
    truelat2 |-> <<"t", "r", "u", "e", "l", "a", "t", "2">>,
    stand_lon |-> <<"s", "t", "a", "n", "d", "_", "l", "o", "n">>,
    geog_data_path |-> <<"g", "e", "o", "g", "_", "d", "a", "t", "a", "_", "p", "a", "t", "h">>,
    opt_geogrid_tbl_path |-> <<"o", "p", "t", "_", "g", "e", "o", "g", "r", "i", "d", "_", "t", "b", "l", "_", "p", "a", "t", "h">>,
    ungrib |-> <<"u", "n", "g", "r", "i", "b">>,
    out_format |-> <<"o", "u", "t", "_", "f", "o", "r", "m", "a", "t">>,
    prefix |-> <<"p", "r", "e", "f", "i", "x">>,
    ungrib_prefix |-> <<"u", "n", "g", "r", "i", "b", "_", "p", "r", "e", "f", "i", "x">>,
    data_type |-> <<"d", "a", "t", "a", "_", "t", "y", "p", "e">>,
    metgrid |-> <<"m", "e", "t", "g", "r", "i", "d">>,
    fg_name |-> <<"f", "g", "_", "n", "a", "m", "e">>,
    list_ungrib_prefixes |-> <<"l", "i", "s", "t", "_", "u", "n", "g", "r", "i", "b", "_", "p", "r", "e", "f", "i", "x", "e", "s">>,
    opt_metgrid_tbl_path |-> <<"o", "p", "t", "_", "m", "e", "t", "g", "r", "i", "d", "_", "t", "b", "l", "_", "p", "a", "t", "h">>,
    namelist_wps |-> <<"n", "a", "m", "e", "l", "i", "s", "t", "_", "w", "p", "s">>,
    ARW |-> <<"A", "R", "W">>,
    WPS |-> <<"W", "P", "S">>,
    GFS |-> <<"G", "F", "S">>,
    mercator |-> <<"m", "e", "r", "c", "a", "t", "o", "r">>,
    climate |-> <<"c", "l", "i", "m", "a", "t", "e">>,
    p_levels |-> <<"p", "_", "l", "e", "v", "e", "l", "s">>,
    afwa |-> <<"a", "f", "w", "a">>,
    diag |-> <<"d", "i", "a", "g">>,
    severe |-> <<"s", "e", "v", "e", "r", "e">>,
    ptype |-> <<"p", "t", "y", "p", "e">>,
    buoy |-> <<"b", "u", "o", "y">>,
    therm |-> <<"t", "h", "e", "r", "m">>,
    icing |-> <<"i", "c", "i", "n", "g">>,
    vis |-> <<"v", "i", "s">>,
    cloud |-> <<"c", "l", "o", "u", "d">>,
    afwa_diag_opt |-> <<"a", "f", "w", "a", "_", "d", "i", "a", "g", "_", "o", "p", "t">>,
    io_form_auxhist2 |-> <<"i", "o", "_", "f", "o", "r", "m", "_", "a", "u", "x", "h", "i", "s", "t", "2">>,
    auxhist2_outname |-> <<"a", "u", "x", "h", "i", "s", "t", "2", "_", "o", "u", "t", "n", "a", "m", "e">>,
    auxhist2_interval |-> <<"a", "u", "x", "h", "i", "s", "t", "2", "_", "i", "n", "t", "e", "r", "v", "a", "l">>,
    outname |-> <<"o", "u", "t", "n", "a", "m", "e">>,
    interval |-> <<"i", "n", "t", "e", "r", "v", "a", "l">> ]

\* the default dates of Namelist.calc_values, lines 70-71
DefaultDateS == <<"2", "0", "0", "0", "-", "0", "1", "-", "0", "1", " ", "0", "0", ":", "0", "0">>
DefaultDateE == <<"2", "0", "0", "0", "-", "0", "1", "-", "0", "1", " ", "1", "2", ":", "0", "0">>

\* Namelist.from_config, lines 47-52, on the value self._config.get returned
FromConfigOf(value, default) ==
    IF ~IsErr(value) /\ value.t = "none" THEN default ELSE value

\* Namelist.from_config(key, default), lines 45-52
from_config(config, key, default) ==
    FromConfigOf(ConfigGet(config, <<key>>, default, FALSE), default)

\* Namelist.__contains__(index), lines 25-26
NmHas(values, index) == MapHas(values, PyStr(index))

\* Namelist.__getitem__(index), lines 31-32: OrderedDict raises KeyError
NmGet(values, index) ==
    IF NmHas(values, index) THEN SodGet(values, PyStr(index))
    ELSE PyErr("KeyError", index)

\* Namelist.__setitem__(index, data), lines 34-35
NmPut(values, index, data) == MapPut(values, PyStr(index), data)

\* Namelist.__delitem__(key), lines 28-29: the pairs without key
NmDel(values, key) ==
    SelectSeq(values, LAMBDA p : p[1] # PyStr(key))

\* variant of NmSection: the section is created anew when it exists too
NmSection_Reset(values, section_name) ==
    MapPut(values, PyStr(section_name), PyMap(<<>>))

\* Namelist.section(section_name), lines 37-43: the document afterwards
NmSection(values, section_name) ==
    IF NmHas(values, section_name) THEN values
    ELSE NmPut(values, section_name, PyMap(<<>>))

\* section[key] of a section of the document, None when either is missing
Emitted(values, section_name, key) ==
    IF NmHas(values, section_name) /\ NmGet(values, section_name).t = "map"
    THEN SodGet(NmGet(values, section_name).v, PyStr(key))
    ELSE PyNone

\* self.section(section_name)[key] = data
SecPut(values, section_name, key, data) ==
    NmPut(NmSection(values, section_name), section_name,
          PyMap(MapPut(NmGet(NmSection(values, section_name), section_name).v,
                       PyStr(key), data)))

\* TRUE, once v is evaluated: the document after one statement is computed
\* before the next statement is applied to it
Computed(v) == v = v

\* several assignments to one section, in order: pairs of <<key, data>>
RECURSIVE SecPutAll(_, _, _)
SecPutAll(values, section_name, pairs) ==
    IF pairs = <<>> THEN values
    ELSE LET put == SecPut(values, section_name, pairs[1][1], pairs[1][2])
         IN IF Computed(put) THEN SecPutAll(put, section_name, Tail(pairs))
            ELSE put

\* OrderedDict.update(other) of a section with a mapping of the
\* configuration: every key of other is assigned in other's order
RECURSIVE DictUpdate(_, _)
DictUpdate(pairs, other) ==
    IF other = <<>> THEN pairs
    ELSE DictUpdate(MapPut(pairs, other[1][1], other[1][2]), Tail(other))

\* the outcome of a method on the document: the sections afterwards and
\* the exception raised, PyNone when it returned
Outcome(values, exc) == [values |-> values, exc |-> exc]

\* assignments section[key] = data in order, up to the first data whose
\* evaluation raised: the document and that exception
RECURSIVE SecPutUntil(_, _, _)
SecPutUntil(values, section_name, pairs) ==
    IF pairs = <<>> THEN Outcome(values, PyNone)
    ELSE IF IsErr(pairs[1][2]) THEN Outcome(values, pairs[1][2])
    ELSE LET put == SecPut(values, section_name, pairs[1][1], pairs[1][2])
         IN IF Computed(put) THEN SecPutUntil(put, section_name, Tail(pairs))
            ELSE Outcome(put, PyNone)

\* dict.update(other) raises for an other that is no mapping
UpdateRaises(other) ==
    IF other.t \in {"none", "int", "float", "bool"} THEN PyErr("TypeError", <<>>)
    ELSE NotModelled

\* Namelist.update_with_extra, lines 59-62, over the sections of extra_nml
\* still to merge; created is the document after self.section(section_name)
RECURSIVE UpdateSections(_, _)

UpdateSection(created, name, other, rest) ==
    IF NmGet(created, name).t # "map"
    THEN Outcome(created, PyErr("AttributeError", <<>>))
    ELSE IF other.t # "map" THEN Outcome(created, UpdateRaises(other))
    ELSE UpdateSections(NmPut(created, name,
                              PyMap(DictUpdate(NmGet(created, name).v, other.v))),
                        rest)

UpdateSections(values, extra) ==
    IF extra = <<>> THEN Outcome(values, PyNone)
    ELSE IF extra[1][1].t # "str" THEN Outcome(values, NotModelled)
    ELSE UpdateSection(NmSection(values, extra[1][1].v), extra[1][1].v,
                       extra[1][2], Tail(extra))

\* Namelist.update_with_extra(base_section), lines 54-62, on the fetched
\* extra_nml
UpdateWithExtraOf(values, extra_nml) ==
    IF IsErr(extra_nml) THEN Outcome(values, extra_nml)
    ELSE IF extra_nml.t = "none" THEN Outcome(values, PyNone)
    ELSE IF extra_nml.t = "map" THEN UpdateSections(values, extra_nml.v)
    ELSE Outcome(values, NotModelled)

update_with_extra(values, config, base_section) ==
    UpdateWithExtraOf(values, from_config(config, base_section, PyNone))

----------------------------------------------------------------------------
(* namelist/wrf.py: the statements of calc_values, by file and line *)

\* a position in the code: the file and the line about to run
At(f, l) == [f |-> f, l |-> l]

\* no call is running
Idle == At("idle", 0)

\* calc_values is about to return
End == At("end", 0)

\* a default that is computed from the state of the call
Ref(name) == [t |-> "ref", v |-> name]

\* value = self.from_config(key, default), assigned to the local or the
\* attribute `name`, or to section[name] when dst is "sec", after the
\* conversion post: "" none, "list" to_list(v), "nd" to_list(v, nd),
\* "date" read_date(v)
Get(at, key, default, dst, sec, name, post) ==
    [at |-> at, key |-> key, default |-> default, dst |-> dst, sec |-> sec,
     name |-> IF dst = "sec" THEN name ELSE <<>>,
     local |-> IF dst = "sec" THEN "" ELSE name, post |-> post]

GetLocal(l, key, default, name) ==
    Get(At("wrf", l), key, default, "loc", <<>>, name, "")

GetKey(l, sec, key, default, post) ==
    Get(At("wrf", l), key, default, "sec", sec, key, post)

\* the from_config calls of Namelist.calc_values, namelist.py lines 69-71
NamelistGets ==
    { Get(At("namelist", 69), N.max_dom, PyInt(1), "self", <<>>, "max_dom", ""),
      Get(At("namelist", 70), N.date_s, PyStr(DefaultDateS), "self", <<>>, "date_s", "date"),
      Get(At("namelist", 71), N.date_e, PyStr(DefaultDateE), "self", <<>>, "date_e", "date") }

\* the from_config calls of WRFNamelist.calc_values, calc_dfi and the
\* calc_other methods, wrf.py
WrfGets ==
    { GetLocal(66, N.dx, PyInt(27000), "dx"),
      GetLocal(67, N.dy, Ref("dx"), "dy"),
      GetLocal(70, N.met_dx, PyNone, "dx"),
      GetLocal(71, N.met_dy, PyNone, "dy"),
      GetLocal(76, N.parent_grid_ratio, PyList(<<PyInt(1)>>), "parent_grid_ratio"),
      GetLocal(77, N.parent_id, Ref("parents"), "parent_id"),
      Get(At("wrf", 88), N.ndown_fine_domains, PyInt(-1), "sec", N.pywrf_store,
          N.fine_domains, "list"),
      GetKey(112, N.time_control, N.interval_seconds, PyInt(10800), ""),
      GetKey(113, N.time_control, N.history_interval, PyInt(60), "nd"),
      GetKey(114, N.time_control, N.restart_interval, PyInt(1440), ""),
      GetKey(115, N.time_control, N.restart, PyBool(FALSE), ""),
      GetKey(116, N.time_control, N.input_from_file, PyBool(TRUE), "nd"),
      GetKey(117, N.time_control, N.frames_per_outfile, PyInt(999999), "nd"),
      GetKey(118, N.time_control, N.fine_input_stream, PyInt(0), "nd"),
      GetKey(120, N.time_control, N.write_hist_at_0h_rst, PyBool(TRUE), ""),
      GetKey(121, N.time_control, N.adjust_output_times, PyBool(TRUE), ""),
      GetKey(122, N.time_control, N.ignore_iofields_warning, PyBool(TRUE), ""),
      GetKey(123, N.time_control, N.iofields_filename, PyStr(N.NONE_SPECIFIED), "nd"),
      GetKey(137, N.domains, N.i_parent_start, Ref("starts"), ""),
      GetKey(138, N.domains, N.j_parent_start, Ref("starts"), ""),
      GetKey(139, N.domains, N.e_we, Ref("sizes"), ""),
      GetKey(140, N.domains, N.e_sn, Ref("sizes"), ""),
      GetKey(142, N.domains, N.num_metgrid_levels, PyNone, ""),
      GetKey(143, N.domains, N.num_metgrid_soil_levels, PyNone, ""),
      GetKey(145, N.domains, N.time_step, Ref("dt"), ""),
      GetKey(146, N.domains, N.use_adaptive_time_step, PyBool(FALSE), ""),
      GetKey(147, N.domains, N.starting_time_step, Ref("dt_start"), ""),
      GetKey(148, N.domains, N.min_time_step, Ref("dt_min"), ""),
      GetKey(149, N.domains, N.max_time_step, Ref("dt_max"), ""),
      GetKey(150, N.domains, N.max_step_increase_pct, Ref("pct"), ""),
      GetLocal(153, N.num_eta_levels, PyInt(41), "num_eta_levels"),
      GetLocal(154, N.eta_levels, PyNone, "eta_levels"),
      GetKey(167, N.dynamics, N.diff_opt, PyInt(1), "nd"),
      GetKey(168, N.dynamics, N.km_opt, PyInt(4), "nd"),
      GetKey(169, N.dynamics, N.damp_opt, PyInt(0), ""),
      GetKey(170, N.dynamics, N.dampcoef, PyFloat(<<0, 1>>), "nd"),
      GetLocal(176, N.mp_physics, PyInt(3), "mp_physics"),
      GetLocal(177, N.cu_physics, PyInt(1), "cu_physics"),
      GetLocal(178, N.ra_lw_physics, PyInt(1), "ra_lw_physics"),
      GetLocal(179, N.ra_sw_physics, PyInt(1), "ra_sw_physics"),
      GetLocal(180, N.bl_pbl_physics, PyInt(1), "bl_pbl_physics"),
      GetLocal(181, N.sf_sfclay_physics, PyInt(1), "sf_sfclay_physics"),
      GetLocal(182, N.sf_surface_physics, PyInt(2), "sf_surface_physics"),
      GetKey(200, N.physics, N.num_land_cat, PyNone, ""),
      GetKey(207, N.physics, N.radt, Ref("radt"), "nd"),
      GetKey(208, N.physics, N.cudt, PyInt(0), "nd"),
      GetKey(209, N.physics, N.bldt, PyInt(0), "nd"),
      GetLocal(211, N.diagnostics, PyMap(<<>>), "diagnostics"),
      GetLocal(312, N.dfi_backward_m, PyInt(0), "dfi_backward_m"),
      GetLocal(313, N.dfi_foreward_m, PyInt(0), "dfi_foreward_m"),
      Get(At("wrf", 412), N.ndown_interval_seconds, Ref("interval"), "sec",
          N.time_control, N.interval_seconds, ""),
      Get(At("wrf", 447), N.ndown_interval_seconds, Ref("interval"), "sec",
          N.time_control, N.interval_seconds, "") }

GetWps(l, sec, name, key, default, post) ==
    Get(At("wps", l), key, default, "sec", sec, name, post)

\* the from_config calls of WPSNamelist.calc_values, wps.py; line 74 holds
\* two, the inner one for the default of the outer
WpsGets ==
    { GetWps(49, N.share, N.interval_seconds, N.interval_seconds, PyInt(10800), ""),
      GetWps(53, N.geogrid, N.parent_id, N.parent_id, Ref("range"), ""),
      GetWps(54, N.geogrid, N.parent_grid_ratio, N.parent_grid_ratio, Ref("ratios"), ""),
      GetWps(55, N.geogrid, N.i_parent_start, N.i_parent_start, Ref("starts"), ""),
      GetWps(56, N.geogrid, N.j_parent_start, N.j_parent_start, Ref("starts"), ""),
      GetWps(57, N.geogrid, N.e_we, N.e_we, Ref("sizes"), ""),
      GetWps(58, N.geogrid, N.e_sn, N.e_sn, Ref("sizes"), ""),
      GetWps(59, N.geogrid, N.dx, N.dx, PyInt(27000), ""),
      GetWps(60, N.geogrid, N.dy, N.dy, PyInt(27000), ""),
      GetWps(61, N.geogrid, N.geog_data_res, N.geog_data_res, Ref("res"), ""),
      GetWps(62, N.geogrid, N.map_proj, N.map_proj, PyStr(N.mercator), ""),
      GetWps(63, N.geogrid, N.ref_lat, N.ref_lat, PyFloat(<<0, 1>>), ""),
      GetWps(64, N.geogrid, N.ref_lon, N.ref_lon, PyFloat(<<0, 1>>), ""),
      GetWps(65, N.geogrid, N.truelat1, N.truelat1, Ref("ref_lat"), ""),
      GetWps(66, N.geogrid, N.truelat2, N.truelat2, Ref("truelat1"), ""),
      GetWps(67, N.geogrid, N.stand_lon, N.stand_lon, Ref("ref_lon"), ""),
      GetWps(68, N.geogrid, N.geog_data_path, N.geog_data_path, PyStr(<<".">>), "path"),
      GetWps(69, N.geogrid, N.opt_geogrid_tbl_path, N.opt_geogrid_tbl_path,
             PyStr(<<".">>), "path"),
      Get(At("wps", 74), N.data_type, PyStr(N.GFS), "loc", <<>>, "data_type", ""),
      Get(At("wps.prefix", 74), N.ungrib_prefix, Ref("data_type"), "sec", N.ungrib,
          N.prefix, ""),
      GetWps(78, N.metgrid, N.fg_name, N.list_ungrib_prefixes, PyNone, ""),
      GetWps(79, N.metgrid, N.opt_metgrid_tbl_path, N.opt_metgrid_tbl_path,
             PyStr(<<".">>), "path") }

Gets == NamelistGets \cup WrfGets \cup WpsGets

\* the lines `name = self.section(...)` that stand alone, wrf.py 166, 174
\* and wps.py 52, 77
SectionLines ==
    { <<At("wrf", 166), N.dynamics>>, <<At("wrf", 174), N.physics>>,
      <<At("wps", 52), N.geogrid>>, <<At("wps", 77), N.metgrid>> }

\* the classes of namelist/wrf.py, and the base class of namelist.py
WrfClasses ==
    {"WRFNamelist", "NdownRealNamelist", "NdownNdownNamelist",
     "NdownDFINamelist", "NdownWRFNamelist"}

\* the first lines of the statements of Namelist.calc_values, in order
NamelistLines == <<69, 70, 71>>

\* the first lines of the statements of WRFNamelist.calc_values up to the
\* call of calc_other, in order (lines 70-71 run when dx < 10 only)
WrfLines ==
    <<66, 67, 68, 70, 71, 72, 76, 77, 79, 88, 91, 112, 113, 114, 115, 116,
      117, 118, 120, 121, 122, 123, 127, 137, 138, 139, 140, 142, 143, 145,
      146, 147, 148, 149, 150, 153, 154, 155, 166, 167, 168, 169, 170, 174,
      176, 177, 178, 179, 180, 181, 182, 193, 200, 201, 207, 208, 209, 211,
      213, 295>>

\* the first lines of the statements of cls.calc_other, in order; the
\* subclasses of NdownRealNamelist run its calc_other first
OtherLines(cls) ==
    CASE cls = "WRFNamelist"        -> <<305>>
      [] cls = "NdownRealNamelist"  -> <<336>>
      [] cls = "NdownNdownNamelist" -> <<376, 412>>
      [] cls = "NdownDFINamelist"   -> <<336, 421>>
      [] cls = "NdownWRFNamelist"   -> <<336, 438, 447, 448>>

\* the first lines of the statements of calc_dfi (312-315 run when dfi_opt
\* is not 0)
DfiLines == <<309, 312, 313, 315>>

InFile(f, lines) == [i \in 1..Len(lines) |-> At(f, lines[i])]

\* the statements of Namelist.calc_values, of WRFNamelist.calc_values up to
\* calc_other, and of calc_dfi
NamelistProgram == InFile("namelist", NamelistLines)
WrfProgram == InFile("wrf", WrfLines)
DfiProgram == InFile("wrf", DfiLines)

\* the first lines of the statements of WPSNamelist.calc_values, wps.py, in
\* order; line 74 runs its inner from_config call and then the outer one
WpsLines ==
    <<44, 49, 52, 53, 54, 55, 56, 57, 58, 59, 60, 61, 62, 63, 64, 65, 66, 67, 68,
      69, 72, 74>>

WpsProgram ==
    InFile("wps", WpsLines) \o <<At("wps.prefix", 74)>> \o InFile("wps", <<77, 78, 79, 82>>)

\* the statements cls.calc_values runs, in order
Program(cls) ==
    IF cls = "Namelist" THEN NamelistProgram \o <<End>>
    ELSE IF cls = "WPSNamelist" THEN NamelistProgram \o WpsProgram \o <<End>>
    ELSE LET other == OtherLines(cls) IN
         NamelistProgram \o WrfProgram \o InFile("wrf", other) \o DfiProgram
             \o <<End>>

\* the statement that follows the one at pc
After(cls, pc) ==
    LET program == Program(cls) IN
    program[1 + CHOOSE i \in 1..Len(program) : program[i] = pc]

----------------------------------------------------------------------------
(* namelist/wrf.py: what the statements of calc_values compute *)

\* the local variables of calc_values and calc_dfi
LocalNames ==
    {"dx", "dy", "dt", "grid_id", "parent_grid_ratio", "parent_id",
     "accumulated_gr", "dt_start", "dt_min", "dt_max", "list_dx", "list_dy",
     "num_eta_levels", "eta_levels", "mp_physics", "cu_physics",
     "ra_lw_physics", "ra_sw_physics", "bl_pbl_physics", "sf_sfclay_physics",
     "sf_surface_physics", "radt", "diagnostics", "dfi_backward_m",
     "dfi_foreward_m", "data_type"}

NoLocals == [n \in LocalNames |-> PyNone]

\* the attributes of a namelist object that calc_values uses
NoAttributes ==
    [max_dom |-> PyNone, date_s |-> PyNone, date_e |-> PyNone, dfi_opt |-> PyNone]

\* the state a statement leaves: the document, the locals, the attributes
\* and the exception it raised (PyNone when it completed)
Left(values, loc, self, exc) ==
    [values |-> values, loc |-> loc, self |-> self, exc |-> exc]

\* [first] + (nd-1)*[rest]
FirstThen(first, nd, rest) == PyList(<<PyInt(first)>> \o Times(nd - 1, PyInt(rest)))

\* ["10m", "5m", "2m", "30s"][:nd], wps.py line 61
GeogDataRes(nd) ==
    PyList(Take(<<PyStr(<<"1", "0", "m">>), PyStr(<<"5", "m">>), PyStr(<<"2", "m">>), PyStr(<<"3", "0", "s">>)>>,
                IF nd >= 4 THEN 4 ELSE IF nd >= 0 THEN nd
                ELSE IF nd <= -4 THEN 0 ELSE 4 + nd))

\* the default of a from_config call that is computed from the state
DefaultOf(default, values, loc, self) ==
    IF default.t # "ref" THEN default
    ELSE CASE default.v = "parents" ->
                  PyList([i \in 1..Len(loc.parent_grid_ratio.v) |-> PyInt(i - 1)])
           [] default.v = "starts" -> FirstThen(1, self.max_dom.v, 10)
           [] default.v = "sizes" -> FirstThen(70, self.max_dom.v, 88)
           [] default.v = "pct" -> FirstThen(10, self.max_dom.v, 51)
           [] default.v = "range" ->
                  PyList([i \in 1..self.max_dom.v |-> PyInt(i - 1)])
           [] default.v = "ratios" -> FirstThen(1, self.max_dom.v, 3)
           [] default.v = "res" -> GeogDataRes(self.max_dom.v)
           [] default.v \in {"ref_lat", "ref_lon", "truelat1"} ->
                  Emitted(values, N.geogrid, N[default.v])
           [] default.v = "interval" ->
                  Emitted(values, N.time_control, N.interval_seconds)
           [] OTHER -> loc[default.v]

\* os.path.expanduser(path): a path that does not start with ~ is returned
\* as it is
ExpandUser(path) ==
    IF path.t # "str"
    THEN PyErr(IF pyver = 2 THEN "AttributeError" ELSE "TypeError", <<>>)
    ELSE IF path.v # <<>> /\ path.v[1] = "~" THEN NotModelled
    ELSE path

\* the conversion applied to the value from_config returned
Posted(post, value, self) ==
    IF IsErr(value) THEN value
    ELSE CASE post = "list" -> to_list(value, 1)
           [] post = "nd" -> to_list(value, self.max_dom.v)
           [] post = "date" -> read_date(value)
           [] post = "path" -> ExpandUser(value)
           [] OTHER -> value

\* the assignment of the value a from_config statement obtained
Assigned(row, value, values, loc, self) ==
    IF IsErr(value) THEN Left(values, loc, self, value)
    ELSE CASE row.dst = "loc" ->
                  Left(values, [loc EXCEPT ![row.local] = value], self, PyNone)
           [] row.dst = "self" ->
                  Left(values, loc, [self EXCEPT ![row.local] = value], PyNone)
           [] OTHER ->
                  Left(SecPut(values, row.sec, row.name, value), loc, self, PyNone)

\* min(dx, dy), line 72
MinOf(dx, dy) ==
    IF dx.t = "none" \/ dy.t = "none" THEN PyErr("TypeError", <<>>)
    ELSE IF ~IsNum(dx) \/ ~IsNum(dy) THEN NotModelled
    ELSE IF RatLess(NumRat(dy), NumRat(dx)) THEN dy ELSE dx

\* calc_time_step, line 37, for a dx that may be a float
FirstKOf(q, interval_s) ==
    IF q[2] = 1 THEN FirstK(q[1], interval_s)
    ELSE RatCeil(RatDiv(Rat(interval_s, 1), RatMul(Rat(5, 1000), q)))

\* calc_time_step, lines 38-39: the k the loop stops at; a k larger than
\* interval_s that fails the test is never left
RECURSIVE LastK(_, _)
LastK(interval_s, k) ==
    IF LoopTest(interval_s, k) /\ k < interval_s THEN LastK(interval_s, k + 1)
    ELSE k

\* calc_time_step(dx, interval_s), lines 33-40, as a function: an int on
\* Python 2, a float on Python 3
StepValue(interval_s, k) ==
    IF pyver = 2 THEN PyInt(StepResult(interval_s, k)[1])
    ELSE PyFloat(StepResult(interval_s, k))

calc_time_step(dx, interval_s) ==
    IF IsErr(dx) THEN dx
    ELSE IF NumRat(dx)[1] = 0 THEN PyErr("ZeroDivisionError", <<>>)
    ELSE IF NumRat(dx)[1] < 0 THEN NotModelled
    ELSE StepValue(interval_s, LastK(interval_s, FirstKOf(NumRat(dx), interval_s)))

\* whether the loop of calc_time_step never ends for this dx
NeverReturns(dx, interval_s) ==
    /\ ~IsErr(dx)
    /\ NumRat(dx)[1] > 0
    /\ LoopTest(interval_s, LastK(interval_s, FirstKOf(NumRat(dx), interval_s)))

\* the interval_s calc_time_step takes when the caller passes none, line 33
DefaultInterval == 3600

\* lines 72-75
TimeStepOf(values, loc, self, dt) ==
    IF IsErr(dt) THEN Left(values, loc, self, dt)
    ELSE Left(values,
              [loc EXCEPT !["dt"] = dt,
                          !["grid_id"] =
                              PyList([i \in 1..self.max_dom.v |-> PyInt(i)])],
              self, PyNone)

\* variant of Accumulate: each ratio multiplies the accumulated ratio of the
\* domain before it, whatever its parent
RECURSIVE Accumulate_Previous(_, _, _, _)
Accumulate_Previous(ratios, parent_id, acc, i) ==
    IF i + 1 >= Len(ratios) THEN PyList(acc)
    ELSE Accumulate_Previous(ratios, parent_id,
                             Append(acc, PyInt(acc[Len(acc)].v * ratios[i + 2].v)),
                             i + 1)

\* lines 79-82: the loop over parent_grid_ratio[1:], at its index i
RECURSIVE Accumulate(_, _, _, _)

AccumulateNext(ratios, parent_id, acc, i, id, gr) ==
    IF IsErr(id) THEN id
    ELSE IF id.t = "bool" THEN NotModelled
    ELSE IF id.t # "int" THEN PyErr("TypeError", <<>>)
    ELSE IF IsErr(PyItem(acc, id.v - 1)) THEN PyItem(acc, id.v - 1)
    ELSE IF IsErr(gr) THEN gr
    ELSE Accumulate(ratios, parent_id,
                    Append(acc, PyInt(PyItem(acc, id.v - 1).v * gr.v)), i + 1)

Accumulate(ratios, parent_id, acc, i) ==
    IF i + 1 >= Len(ratios) THEN PyList(acc)
    ELSE AccumulateNext(ratios, parent_id, acc, i, PyItem(parent_id, i + 1),
                        Convert("int", ratios[i + 2]))

\* lines 79-87
AccumulatedOf(values, loc, self, accumulated_gr) ==
    IF IsErr(accumulated_gr) THEN Left(values, loc, self, accumulated_gr)
    ELSE Left(SecPutAll(values, N.pywrf_store,
                        << <<N.parent_id, loc.parent_id>>,
                           <<N.accumulated_gr, accumulated_gr>> >>),
              [loc EXCEPT !["accumulated_gr"] = accumulated_gr], self, PyNone)

\* line 91: max(int(math.ceil(dt/(1.*gr))), 2)
DtStart(dt, gr) ==
    PyInt(IF RatCeil(RatDiv(NumRat(dt), Rat(gr, 1))) > 2
          THEN RatCeil(RatDiv(NumRat(dt), Rat(gr, 1))) ELSE 2)

\* line 92: int(math.ceil(dts/2)), dts an int
DtMin(dts) == PyInt(IF pyver = 2 THEN RatFloor(Rat(dts, 2)) ELSE RatCeil(Rat(dts, 2)))

\* line 93: int(math.ceil(dts*2))
DtMax(dts) == PyInt(dts * 2)

\* lines 96-97: dx/float(gr)
GridStep(dx, gr) == PyFloat(RatDiv(NumRat(dx), Rat(gr, 1)))

\* nd * [date.year], ... for a datetime: field 1 year .. 4 hour
DateList(nd, date, field) == PyList(Times(nd, PyInt(date.v[field])))

\* the eight date arrays of time_control, lines 103-110
DatePairs(nd, date_s, date_e) ==
    << <<N.start_year, DateList(nd, date_s, 1)>>,
       <<N.start_month, DateList(nd, date_s, 2)>>,
       <<N.start_day, DateList(nd, date_s, 3)>>,
       <<N.start_hour, DateList(nd, date_s, 4)>>,
       <<N.end_year, DateList(nd, date_e, 1)>>,
       <<N.end_month, DateList(nd, date_e, 2)>>,
       <<N.end_day, DateList(nd, date_e, 3)>>,
       <<N.end_hour, DateList(nd, date_e, 4)>> >>

EndPairs(nd, date) == SubSeq(DatePairs(nd, date, date), 5, 8)

\* lines 91-110 for the accumulated ratios acc
StepsOf(values, loc, self, acc) ==
    IF \E i \in 1..Len(acc) : acc[i].v = 0
    THEN Left(values, loc, self, PyErr("ZeroDivisionError", <<>>))
    ELSE Left(SecPutAll(NmSection(values, N.time_control), N.time_control,
                        DatePairs(self.max_dom.v, self.date_s, self.date_e)),
              [loc EXCEPT
                 !["dt_start"] = PyList([i \in 1..Len(acc) |-> DtStart(loc.dt, acc[i].v)]),
                 !["dt_min"] =
                     PyList([i \in 1..Len(acc) |-> DtMin(DtStart(loc.dt, acc[i].v).v)]),
                 !["dt_max"] =
                     PyList([i \in 1..Len(acc) |-> DtMax(DtStart(loc.dt, acc[i].v).v)]),
                 !["list_dx"] = PyList([i \in 1..Len(acc) |-> GridStep(loc.dx, acc[i].v)]),
                 !["list_dy"] = PyList([i \in 1..Len(acc) |-> GridStep(loc.dy, acc[i].v)])],
              self, PyNone)

\* lines 127-135
DomainsOf(values, loc, self) ==
    Left(SecPutAll(NmSection(values, N.domains), N.domains,
                   << <<N.max_dom, self.max_dom>>,
                      <<N.dx, loc.list_dx>>,
                      <<N.dy, loc.list_dy>>,
                      <<N.grid_id, loc.grid_id>>,
                      <<N.parent_id, loc.parent_id>>,
                      <<N.parent_grid_ratio, loc.parent_grid_ratio>>,
                      <<N.parent_time_step_ratio, loc.parent_grid_ratio>> >>),
         loc, self, PyNone)

\* lines 155-162; the spline levels of compute_eta_levels are not modelled
VerticalOf(values, loc, self) ==
    IF loc.eta_levels.t = "str" THEN Left(values, loc, self, NotModelled)
    ELSE IF loc.eta_levels.t = "list"
    THEN Left(SecPutAll(values, N.domains,
                        << <<N.e_vert, PyList(Times(self.max_dom.v,
                                                    PyInt(Len(loc.eta_levels.v))))>>,
                           <<N.eta_levels, loc.eta_levels>> >>),
              loc, self, PyNone)
    ELSE Left(SecPut(values, N.domains, N.e_vert,
                     PyList(Times(self.max_dom.v, loc.num_eta_levels))),
              loc, self, PyNone)

\* lines 193-199: the seven option arrays of physics
PhysicsNames ==
    << <<N.mp_physics, "mp_physics">>, <<N.cu_physics, "cu_physics">>,
       <<N.ra_lw_physics, "ra_lw_physics">>, <<N.ra_sw_physics, "ra_sw_physics">>,
       <<N.bl_pbl_physics, "bl_pbl_physics">>,
       <<N.sf_sfclay_physics, "sf_sfclay_physics">>,
       <<N.sf_surface_physics, "sf_surface_physics">> >>

PhysicsOf(values, loc, self) ==
    Left(SecPutAll(values, N.physics,
                   [i \in 1..Len(PhysicsNames) |->
                       <<PhysicsNames[i][1],
                         to_list_of(loc[PhysicsNames[i][2]], self.max_dom.v)>>]),
         loc, self, PyNone)

\* the dictionary num_soil_layers, lines 183-192
SoilLayers == << <<0, 0>>, <<1, 5>>, <<2, 4>>, <<3, 6>>, <<4, 4>>, <<5, 10>>,
                 <<7, 2>>, <<8, 3>> >>

\* lines 201-206
SoilOf(values, loc, self) ==
    IF ~\E i \in 1..Len(SoilLayers) : SoilLayers[i][1] = loc.sf_surface_physics.v
    THEN Left(values, loc, self, PyErr("Exception", <<>>))
    ELSE Left(SecPut(values, N.physics, N.num_soil_layers,
                     PyInt(SoilLayers[CHOOSE i \in 1..Len(SoilLayers) :
                               SoilLayers[i][1] = loc.sf_surface_physics.v][2])),
              [loc EXCEPT !["radt"] =
                  MathCeil(RatDiv(PyItem(loc.list_dx.v, -1).v, Rat(1000, 1)))],
              self, PyNone)

\* a | b for two ints that are not negative
RECURSIVE BitOr(_, _)
BitOr(a, b) ==
    IF a = 0 THEN b
    ELSE IF b = 0 THEN a
    ELSE (IF a % 2 = 1 \/ b % 2 = 1 THEN 1 ELSE 0) + 2 * BitOr(a \div 2, b \div 2)

\* whether a list holds nothing but ints that are not negative
Flags(list) == \A i \in 1..Len(list) : list[i].t = "int" /\ list[i].v >= 0

\* the names line 237 goes through
AfwaDiags == <<N.diag, N.severe, N.ptype, N.buoy, N.therm, N.icing, N.vis, N.cloud>>

\* dict.get(key, default) of a mapping of the configuration
DictGet(pairs, key, default) ==
    IF MapHas(pairs, PyStr(key)) THEN SodGet(pairs, PyStr(key)) ELSE default

\* lines 242-246: the copy of diag_opt, extended by the entries of
\* diag_value beyond its length, with diag_value or-ed into it
OredInto(diag_opt, diag_value) ==
    [i \in 1..(IF Len(diag_opt) > Len(diag_value) THEN Len(diag_opt)
               ELSE Len(diag_value)) |->
        IF i > Len(diag_value) THEN diag_opt[i]
        ELSE IF i > Len(diag_opt) THEN PyInt(BitOr(diag_value[i].v, diag_value[i].v))
        ELSE PyInt(BitOr(diag_opt[i].v, diag_value[i].v))]

\* lines 238-248 for one diag and its diag_value
AfwaDiag(values, diag, diag_value, nd) ==
    IF IsErr(diag_value) THEN Outcome(values, diag_value)
    ELSE IF diag_value.t # "list" \/ ~Flags(diag_value.v)
    THEN Outcome(values, NotModelled)
    ELSE IF ~\E i \in 1..Len(diag_value.v) : i <= nd /\ diag_value.v[i].v # 0
    THEN Outcome(values, PyNone)
    ELSE LET diag_opt == DictGet(NmGet(values, N.afwa).v, N.afwa_diag_opt, diag_value)
         IN IF diag_opt.t # "list"
            THEN Outcome(values, PyErr("AttributeError", <<>>))
            ELSE IF ~Flags(diag_opt.v) THEN Outcome(values, NotModelled)
            ELSE Outcome(SecPutAll(values, N.afwa,
                     << <<N.afwa_diag_opt, PyList(OredInto(diag_opt.v, diag_value.v))>>,
                        <<<<"a", "f", "w", "a", "_">> \o diag \o <<"_", "o", "p", "t">>, diag_value>> >>),
                         PyNone)

\* the loop of lines 237-248 from the i-th diag on
RECURSIVE AfwaLoop(_, _, _, _)
AfwaLoop(values, diag_afwa, nd, i) ==
    IF i > Len(AfwaDiags) THEN Outcome(values, PyNone)
    ELSE LET done == AfwaDiag(values, AfwaDiags[i],
                              to_list(DictGet(diag_afwa, AfwaDiags[i], PyInt(0)), nd),
                              nd)
         IN IF IsErr(done.exc) THEN done
            ELSE AfwaLoop(done.values, diag_afwa, nd, i + 1)

\* lines 249-253: the output stream of a section afwa that holds a key
AfwaStream(outcome, diag_afwa, nd) ==
    IF IsErr(outcome.exc) \/ NmGet(outcome.values, N.afwa).v = <<>> THEN outcome
    ELSE SecPutUntil(NmSection(outcome.values, N.time_control), N.time_control,
             << <<N.io_form_auxhist2, PyInt(2)>>,
                <<N.auxhist2_outname,
                  DictGet(diag_afwa, N.outname, PyStr(<<"w", "r", "f", "a", "f", "w", "a", "_", "d", "<", "d", "o", "m", "a", "i", "n", ">", "_", "<", "d", "a", "t", "e", ">">>))>>,
                <<N.auxhist2_interval,
                  to_list(DictGet(diag_afwa, N.interval, PyInt(60)), nd)>> >>)

\* lines 234-253: the block of the AFWA diagnostics
AfwaOf(values, diag_afwa, nd) ==
    IF diag_afwa.t # "map" \/ NmGet(NmSection(values, N.afwa), N.afwa).t # "map"
    THEN Outcome(values, NotModelled)
    ELSE AfwaStream(AfwaLoop(NmSection(values, N.afwa), diag_afwa.v, nd, 1),
                    diag_afwa.v, nd)

\* lines 213-254: the diagnostics; the blocks climate and p_levels are not
\* modelled
DiagnosticsOf(values, loc, self) ==
    IF loc.diagnostics = PyMap(<<>>) THEN Left(values, loc, self, PyNone)
    ELSE IF loc.diagnostics.t # "map"
            \/ MapHas(loc.diagnostics.v, PyStr(N.climate))
            \/ MapHas(loc.diagnostics.v, PyStr(N.p_levels))
    THEN Left(values, loc, self, NotModelled)
    ELSE IF ~MapHas(loc.diagnostics.v, PyStr(N.afwa)) THEN Left(values, loc, self, PyNone)
    ELSE LET done == AfwaOf(values, SodGet(loc.diagnostics.v, PyStr(N.afwa)),
                            self.max_dom.v)
         IN Left(done.values, loc, self, done.exc)

\* line 295
ExtraOf(loc, self, outcome) == Left(outcome.values, loc, self, outcome.exc)

----------------------------------------------------------------------------
(* namelist/wrf.py: calc_other of the downscaling classes, and calc_dfi *)

\* list[i] for a value read from the document
ItemOf(list, i) ==
    IF IsErr(list) THEN list
    ELSE IF list.t # "list" THEN NotModelled
    ELSE PyItem(list.v, i)

\* [ list[i-1] for i in indices ]
Picked(list, indices) ==
    ListOf([j \in 1..Len(indices) |-> ItemOf(list, indices[j] - 1)])

\* a - b for two ints read from the document
Minus(a, b) ==
    IF IsErr(a) THEN a
    ELSE IF IsErr(b) THEN b
    ELSE IF a.t = "int" /\ b.t = "int" THEN PyInt(a.v - b.v)
    ELSE NotModelled

\* a / b for two ints read from the document
Over(a, b) ==
    IF IsErr(a) THEN a
    ELSE IF IsErr(b) THEN b
    ELSE IF a.t = "int" /\ b.t = "int" THEN IntDiv(a.v, b.v)
    ELSE NotModelled

\* list[i:] for a value read from the document
SliceOf(list, i) ==
    IF IsErr(list) THEN list
    ELSE IF list.t # "list" THEN NotModelled
    ELSE PyList(PySliceFrom(list.v, i))

\* the fine domains kept in pywrf_store, as numbers
FineDomains(values) ==
    [j \in 1..Len(Emitted(values, N.pywrf_store, N.fine_domains).v) |->
        Emitted(values, N.pywrf_store, N.fine_domains).v[j].v]

\* NdownRealNamelist.calc_other, lines 349-362, for the fine domains fd
RealDomains(values, fd) ==
    SecPutUntil(values, N.domains,
        << <<N.max_dom, PyInt(Len(fd))>>,
           <<N.parent_id,
             ListOf([j \in 1..Len(fd) |->
                 Minus(ItemOf(Emitted(values, N.pywrf_store, N.parent_id), fd[j] - 1),
                       ItemOf(Emitted(values, N.pywrf_store, N.parent_id), fd[1] - 1))])>>,
           <<N.parent_grid_ratio,
             ListOf([j \in 1..Len(fd) |->
                 Over(ItemOf(Emitted(values, N.pywrf_store, N.accumulated_gr), fd[j] - 1),
                      ItemOf(Emitted(values, N.pywrf_store, N.accumulated_gr),
                             fd[1] - 1))])>>,
           <<N.i_parent_start, Picked(Emitted(values, N.domains, N.i_parent_start), fd)>>,
           <<N.j_parent_start, Picked(Emitted(values, N.domains, N.j_parent_start), fd)>>,
           <<N.e_we, Picked(Emitted(values, N.domains, N.e_we), fd)>>,
           <<N.e_sn, Picked(Emitted(values, N.domains, N.e_sn), fd)>>,
           <<N.dx, Picked(Emitted(values, N.domains, N.dx), fd)>>,
           <<N.dy, Picked(Emitted(values, N.domains, N.dy), fd)>>,
           <<N.time_step,
             calc_time_step(ItemOf(Picked(Emitted(values, N.domains, N.dx), fd), 0),
                            DefaultInterval)>>,
           <<N.starting_time_step,
             SliceOf(Emitted(values, N.domains, N.starting_time_step), fd[1] - 1)>>,
           <<N.min_time_step,
             SliceOf(Emitted(values, N.domains, N.min_time_step), fd[1] - 1)>>,
           <<N.max_time_step,
             SliceOf(Emitted(values, N.domains, N.max_time_step), fd[1] - 1)>> >>)

\* lines 364-368 after the assignments to domains
RealDates(loc, self, outcome) ==
    IF IsErr(outcome.exc) THEN Left(outcome.values, loc, self, outcome.exc)
    ELSE Left(SecPutAll(outcome.values, N.time_control,
                        EndPairs(self.max_dom.v, self.date_s)),
              loc, self, PyNone)

\* NdownRealNamelist.calc_other, lines 334-368
RealOther(values, loc, self) ==
    IF FineDomains(values) = <<>>
    THEN Left(values, loc, self, PyErr("IndexError", <<>>))
    ELSE RealDates(loc, self, RealDomains(values, FineDomains(values)))

\* whether line 359 calls calc_time_step with a dx it never returns for
RealNeverReturns(values) ==
    /\ FineDomains(values) # <<>>
    /\ NeverReturns(ItemOf(Picked(Emitted(values, N.domains, N.dx),
                                  FineDomains(values)), 0), DefaultInterval)

\* NdownNdownNamelist.calc_other, lines 391-399, for the pair of domains
\* (first_fine_parent, first_fine)
NdownDomains(values, pair) ==
    SecPutUntil(values, N.domains,
        << <<N.max_dom, PyInt(2)>>,
           <<N.parent_id, PyList(<<PyInt(0), PyInt(1)>>)>>,
           <<N.parent_grid_ratio,
             ListOf(<<PyInt(1),
                      ItemOf(Emitted(values, N.domains, N.parent_grid_ratio),
                             pair[2] - 1)>>)>>,
           <<N.i_parent_start,
             ListOf(<<PyInt(1),
                      ItemOf(Emitted(values, N.domains, N.i_parent_start),
                             pair[2] - 1)>>)>>,
           <<N.j_parent_start,
             ListOf(<<PyInt(1),
                      ItemOf(Emitted(values, N.domains, N.j_parent_start),
                             pair[2] - 1)>>)>>,
           <<N.e_we, Picked(Emitted(values, N.domains, N.e_we), pair)>>,
           <<N.e_sn, Picked(Emitted(values, N.domains, N.e_sn), pair)>>,
           <<N.dx, Picked(Emitted(values, N.domains, N.dx), pair)>>,
           <<N.dy, Picked(Emitted(values, N.domains, N.dy), pair)>> >>)

\* lines 401-410 after the assignments to domains
NdownDates(loc, self, outcome) ==
    IF IsErr(outcome.exc) THEN Left(outcome.values, loc, self, outcome.exc)
    ELSE Left(SecPutAll(outcome.values, N.time_control,
                        DatePairs(2, self.date_s, self.date_e)),
              loc, self, PyNone)

\* variant of NdownDateE: date_e is left as it is
NdownDateE_Kept(self) == self

\* lines 387-389: date_e one hour later when it equals date_s
NdownDateE(self) ==
    IF self.date_s = self.date_e
    THEN [self EXCEPT !.date_e = advance_date(self.date_e, 1, 0)]
    ELSE self

\* lines 378-410 for first_fine and its parent
NdownParent(values, loc, self, first_fine, first_fine_parent) ==
    IF IsErr(first_fine_parent) THEN Left(values, loc, self, first_fine_parent)
    ELSE IF first_fine_parent.t # "int" THEN Left(values, loc, self, NotModelled)
    ELSE IF IsErr(NdownDateE(self).date_e)
    THEN Left(values, loc, self, NdownDateE(self).date_e)
    ELSE NdownDates(loc, NdownDateE(self),
                    NdownDomains(values, <<first_fine_parent.v, first_fine>>))

\* NdownNdownNamelist.calc_other, lines 374-410
NdownOther(values, loc, self) ==
    IF FineDomains(values) = <<>>
    THEN Left(values, loc, self, PyErr("IndexError", <<>>))
    ELSE NdownParent(values, loc, self, FineDomains(values)[1],
                     ItemOf(Emitted(values, N.pywrf_store, N.parent_id),
                            FineDomains(values)[1] - 1))

\* NdownDFINamelist.calc_other, lines 421-429
DFIOther(values, loc, self) ==
    Left(SecPutAll(NmSection(values, N.dynamics), N.dynamics,
            [i \in 1..5 |->
                << <<N.moist_adv_opt, N.scalar_adv_opt, N.tracer_adv_opt,
                     N.tke_adv_opt, N.momentum_adv_opt>>[i],
                   PyList(Times(Len(FineDomains(values)), PyInt(1))) >>]),
         loc, self, PyNone)

\* NdownWRFNamelist.calc_other, lines 438-445
WRFDates(values, loc, self) ==
    Left(SecPutAll(NmSection(values, N.time_control), N.time_control,
                   EndPairs(Len(FineDomains(values)), self.date_e)),
         loc, self, PyNone)

\* variant of WRFStream: self.dfi_opt is left as it is
WRFStream_KeepDfi(values, loc, self) ==
    Left(SecPut(values, N.time_control, N.fine_input_stream,
                PyList(<<PyInt(0)>>
                       \o Times(IF Len(FineDomains(values)) - 1 > 1
                                THEN Len(FineDomains(values)) - 1 ELSE 1,
                                PyInt(2)))),
         loc, self, PyNone)

\* NdownWRFNamelist.calc_other, lines 448-451
WRFStream(values, loc, self) ==
    Left(SecPut(values, N.time_control, N.fine_input_stream,
                PyList(<<PyInt(0)>>
                       \o Times(IF Len(FineDomains(values)) - 1 > 1
                                THEN Len(FineDomains(values)) - 1 ELSE 1,
                                PyInt(2)))),
         loc, [self EXCEPT !.dfi_opt = PyInt(0)], PyNone)

\* the five date fields calc_dfi writes for one stop, lines 320-329
StopPairs(names, date) == [i \in 1..5 |-> <<names[i], PyInt(date.v[i])>>]

\* calc_dfi, lines 315-329, for the two stop dates
DfiWritten(values, loc, self, date_dfi_s, date_dfi_e) ==
    IF IsErr(date_dfi_s) THEN Left(values, loc, self, date_dfi_s)
    ELSE IF IsErr(date_dfi_e) THEN Left(values, loc, self, date_dfi_e)
    ELSE Left(SecPutAll(NmSection(values, N.dfi_control), N.dfi_control,
                  << <<N.dfi_opt, self.dfi_opt>> >>
                  \o StopPairs(<<N.dfi_bckstop_year, N.dfi_bckstop_month,
                                 N.dfi_bckstop_day, N.dfi_bckstop_hour,
                                 N.dfi_bckstop_minute>>, date_dfi_s)
                  \o StopPairs(<<N.dfi_fwdstop_year, N.dfi_fwdstop_month,
                                 N.dfi_fwdstop_day, N.dfi_fwdstop_hour,
                                 N.dfi_fwdstop_minute>>, date_dfi_e)),
              loc, self, PyNone)

\* variant of DfiOf: the back stop is advanced by dfi_backward_m minutes
DfiOf_BackwardAdded(values, loc, self) ==
    DfiWritten(values, loc, self,
               advance_date(self.date_s, 0, loc.dfi_backward_m.v),
               advance_date(self.date_s, 0, loc.dfi_foreward_m.v))

DfiOf(values, loc, self) ==
    DfiWritten(values, loc, self,
               advance_date(self.date_s, 0, -loc.dfi_backward_m.v),
               advance_date(self.date_s, 0, loc.dfi_foreward_m.v))

----------------------------------------------------------------------------
(* the namelist object: its operations and the statements of calc_values *)

\* the public operation that ran last, its argument and what it returned
\* or raised; out is Undefined while calc_values runs
Did(name, arg, out) == [name |-> name, arg |-> arg, out |-> out]

\* self.from_config(key, default) of the statement at nm_pc, and the
\* assignment of its value
FromConfig ==
    /\ \E row \in Gets :
          /\ row.at = nm_pc
          /\ \E r \in {Assigned(row,
                           Posted(row.post,
                                  from_config(nm_config, row.key,
                                              DefaultOf(row.default, nm_values,
                                                        nm_loc, nm_self)),
                                  nm_self),
                           nm_values, nm_loc, nm_self)} :
                /\ nm_values' = r.values
                /\ nm_loc' = r.loc
                /\ nm_self' = r.self
                /\ nm_pc' = IF IsErr(r.exc) THEN Idle ELSE After(nm_cls, nm_pc)
                /\ nm_op' = IF IsErr(r.exc) THEN [nm_op EXCEPT !.out = r.exc] ELSE nm_op
    /\ UNCHANGED <<pyver, gvars, cvars, tvars, svars, rvars, nm_cls, nm_config, nm_ops, nm_calls, nm_prev>>

\* name = self.section(...), wrf.py lines 166 and 174
SectionLine ==
    /\ \E s \in SectionLines :
          /\ s[1] = nm_pc
          /\ nm_values' = NmSection(nm_values, s[2])
    /\ nm_pc' = After(nm_cls, nm_pc)
    /\ UNCHANGED <<pyver, gvars, cvars, tvars, svars, rvars, nm_cls, nm_config, nm_self,
                   nm_loc, nm_op, nm_ops, nm_calls, nm_prev>>

\* wrf.py line 68: if dx < 10
WrfDegrees ==
    /\ nm_pc = At("wrf", 68)
    /\ nm_pc' = IF nm_loc.dx.v < 10 THEN At("wrf", 70) ELSE At("wrf", 72)
    /\ UNCHANGED <<pyver, gvars, cvars, tvars, svars, rvars, nm_cls, nm_config, nm_values,
                   nm_self, nm_loc, nm_op, nm_ops, nm_calls, nm_prev>>

\* calc_dfi, wrf.py lines 309-310: if self.dfi_opt == 0: return
CalcDfi ==
    /\ nm_pc = At("wrf", 309)
    /\ nm_pc' = IF nm_self.dfi_opt = PyInt(0) THEN End ELSE After(nm_cls, nm_pc)
    /\ UNCHANGED <<pyver, gvars, cvars, tvars, svars, rvars, nm_cls, nm_config, nm_values,
                   nm_self, nm_loc, nm_op, nm_ops, nm_calls, nm_prev>>

\* calc_values returns
Return ==
    /\ nm_pc = End
    /\ nm_pc' = Idle
    /\ nm_op' = [nm_op EXCEPT !.out = PyNone]
    /\ UNCHANGED <<pyver, gvars, cvars, tvars, svars, rvars, nm_cls, nm_config, nm_values,
                   nm_self, nm_loc, nm_ops, nm_calls, nm_prev>>

\* wrf.py lines 72-75: dt and grid_id
WrfTimeStep ==
    /\ nm_pc = At("wrf", 72)
    /\ ~NeverReturns(MinOf(nm_loc.dx, nm_loc.dy), DefaultInterval)
    /\ \E r \in {TimeStepOf(nm_values, nm_loc, nm_self,
                          calc_time_step(MinOf(nm_loc.dx, nm_loc.dy), DefaultInterval))} :
        /\ nm_values' = r.values
        /\ nm_loc' = r.loc
        /\ nm_self' = r.self
        /\ nm_pc' = IF IsErr(r.exc) THEN Idle ELSE After(nm_cls, nm_pc)
        /\ nm_op' = IF IsErr(r.exc) THEN [nm_op EXCEPT !.out = r.exc] ELSE nm_op
    /\ UNCHANGED <<pyver, gvars, cvars, tvars, svars, rvars, nm_cls, nm_config, nm_ops, nm_calls, nm_prev>>

\* wrf.py lines 79-87: the accumulated grid ratios, kept in pywrf_store
WrfAccumulate ==
    /\ nm_pc = At("wrf", 79)
    /\ \E r \in {AccumulatedOf(nm_values, nm_loc, nm_self,
                             Accumulate(nm_loc.parent_grid_ratio.v, nm_loc.parent_id.v,
                                        <<PyInt(1)>>, 0))} :
        /\ nm_values' = r.values
        /\ nm_loc' = r.loc
        /\ nm_self' = r.self
        /\ nm_pc' = IF IsErr(r.exc) THEN Idle ELSE After(nm_cls, nm_pc)
        /\ nm_op' = IF IsErr(r.exc) THEN [nm_op EXCEPT !.out = r.exc] ELSE nm_op
    /\ UNCHANGED <<pyver, gvars, cvars, tvars, svars, rvars, nm_cls, nm_config, nm_ops, nm_calls, nm_prev>>

\* wrf.py lines 91-110: the default steps and the dates of time_control
WrfSteps ==
    /\ nm_pc = At("wrf", 91)
    /\ \E r \in {StepsOf(nm_values, nm_loc, nm_self, nm_loc.accumulated_gr.v)} :
        /\ nm_values' = r.values
        /\ nm_loc' = r.loc
        /\ nm_self' = r.self
        /\ nm_pc' = IF IsErr(r.exc) THEN Idle ELSE After(nm_cls, nm_pc)
        /\ nm_op' = IF IsErr(r.exc) THEN [nm_op EXCEPT !.out = r.exc] ELSE nm_op
    /\ UNCHANGED <<pyver, gvars, cvars, tvars, svars, rvars, nm_cls, nm_config, nm_ops, nm_calls, nm_prev>>

\* wrf.py lines 127-135: the grid of the section domains
WrfDomains ==
    /\ nm_pc = At("wrf", 127)
    /\ \E r \in {DomainsOf(nm_values, nm_loc, nm_self)} :
        /\ nm_values' = r.values
        /\ nm_loc' = r.loc
        /\ nm_self' = r.self
        /\ nm_pc' = IF IsErr(r.exc) THEN Idle ELSE After(nm_cls, nm_pc)
        /\ nm_op' = IF IsErr(r.exc) THEN [nm_op EXCEPT !.out = r.exc] ELSE nm_op
    /\ UNCHANGED <<pyver, gvars, cvars, tvars, svars, rvars, nm_cls, nm_config, nm_ops, nm_calls, nm_prev>>

\* wrf.py lines 155-162: e_vert
WrfVertical ==
    /\ nm_pc = At("wrf", 155)
    /\ \E r \in {VerticalOf(nm_values, nm_loc, nm_self)} :
        /\ nm_values' = r.values
        /\ nm_loc' = r.loc
        /\ nm_self' = r.self
        /\ nm_pc' = IF IsErr(r.exc) THEN Idle ELSE After(nm_cls, nm_pc)
        /\ nm_op' = IF IsErr(r.exc) THEN [nm_op EXCEPT !.out = r.exc] ELSE nm_op
    /\ UNCHANGED <<pyver, gvars, cvars, tvars, svars, rvars, nm_cls, nm_config, nm_ops, nm_calls, nm_prev>>

\* wrf.py lines 193-199: the option arrays of physics
WrfPhysics ==
    /\ nm_pc = At("wrf", 193)
    /\ \E r \in {PhysicsOf(nm_values, nm_loc, nm_self)} :
        /\ nm_values' = r.values
        /\ nm_loc' = r.loc
        /\ nm_self' = r.self
        /\ nm_pc' = IF IsErr(r.exc) THEN Idle ELSE After(nm_cls, nm_pc)
        /\ nm_op' = IF IsErr(r.exc) THEN [nm_op EXCEPT !.out = r.exc] ELSE nm_op
    /\ UNCHANGED <<pyver, gvars, cvars, tvars, svars, rvars, nm_cls, nm_config, nm_ops, nm_calls, nm_prev>>

\* wrf.py lines 201-206: num_soil_layers and radt
WrfSoil ==
    /\ nm_pc = At("wrf", 201)
    /\ \E r \in {SoilOf(nm_values, nm_loc, nm_self)} :
        /\ nm_values' = r.values
        /\ nm_loc' = r.loc
        /\ nm_self' = r.self
        /\ nm_pc' = IF IsErr(r.exc) THEN Idle ELSE After(nm_cls, nm_pc)
        /\ nm_op' = IF IsErr(r.exc) THEN [nm_op EXCEPT !.out = r.exc] ELSE nm_op
    /\ UNCHANGED <<pyver, gvars, cvars, tvars, svars, rvars, nm_cls, nm_config, nm_ops, nm_calls, nm_prev>>

\* wrf.py lines 213-254: the diagnostics
WrfDiagnostics ==
    /\ nm_pc = At("wrf", 213)
    /\ \E r \in {DiagnosticsOf(nm_values, nm_loc, nm_self)} :
        /\ nm_values' = r.values
        /\ nm_loc' = r.loc
        /\ nm_self' = r.self
        /\ nm_pc' = IF IsErr(r.exc) THEN Idle ELSE After(nm_cls, nm_pc)
        /\ nm_op' = IF IsErr(r.exc) THEN [nm_op EXCEPT !.out = r.exc] ELSE nm_op
    /\ UNCHANGED <<pyver, gvars, cvars, tvars, svars, rvars, nm_cls, nm_config, nm_ops, nm_calls, nm_prev>>

\* wrf.py line 295: self.update_with_extra("namelist_wrf")
WrfExtra ==
    /\ nm_pc = At("wrf", 295)
    /\ \E r \in {ExtraOf(nm_loc, nm_self,
                       update_with_extra(nm_values, nm_config, N.namelist_wrf))} :
        /\ nm_values' = r.values
        /\ nm_loc' = r.loc
        /\ nm_self' = r.self
        /\ nm_pc' = IF IsErr(r.exc) THEN Idle ELSE After(nm_cls, nm_pc)
        /\ nm_op' = IF IsErr(r.exc) THEN [nm_op EXCEPT !.out = r.exc] ELSE nm_op
    /\ UNCHANGED <<pyver, gvars, cvars, tvars, svars, rvars, nm_cls, nm_config, nm_ops, nm_calls, nm_prev>>

\* WRFNamelist.calc_other, wrf.py lines 303-305: pass
WrfCalcOther ==
    /\ nm_pc = At("wrf", 305)
    /\ \E r \in {Left(nm_values, nm_loc, nm_self, PyNone)} :
        /\ nm_values' = r.values
        /\ nm_loc' = r.loc
        /\ nm_self' = r.self
        /\ nm_pc' = IF IsErr(r.exc) THEN Idle ELSE After(nm_cls, nm_pc)
        /\ nm_op' = IF IsErr(r.exc) THEN [nm_op EXCEPT !.out = r.exc] ELSE nm_op
    /\ UNCHANGED <<pyver, gvars, cvars, tvars, svars, rvars, nm_cls, nm_config, nm_ops, nm_calls, nm_prev>>

\* NdownRealNamelist.calc_other, wrf.py lines 334-368
RealCalcOther ==
    /\ nm_pc = At("wrf", 336)
    /\ ~RealNeverReturns(nm_values)
    /\ \E r \in {RealOther(nm_values, nm_loc, nm_self)} :
        /\ nm_values' = r.values
        /\ nm_loc' = r.loc
        /\ nm_self' = r.self
        /\ nm_pc' = IF IsErr(r.exc) THEN Idle ELSE After(nm_cls, nm_pc)
        /\ nm_op' = IF IsErr(r.exc) THEN [nm_op EXCEPT !.out = r.exc] ELSE nm_op
    /\ UNCHANGED <<pyver, gvars, cvars, tvars, svars, rvars, nm_cls, nm_config, nm_ops, nm_calls, nm_prev>>

\* NdownNdownNamelist.calc_other, wrf.py lines 374-410
NdownCalcOther ==
    /\ nm_pc = At("wrf", 376)
    /\ \E r \in {NdownOther(nm_values, nm_loc, nm_self)} :
        /\ nm_values' = r.values
        /\ nm_loc' = r.loc
        /\ nm_self' = r.self
        /\ nm_pc' = IF IsErr(r.exc) THEN Idle ELSE After(nm_cls, nm_pc)
        /\ nm_op' = IF IsErr(r.exc) THEN [nm_op EXCEPT !.out = r.exc] ELSE nm_op
    /\ UNCHANGED <<pyver, gvars, cvars, tvars, svars, rvars, nm_cls, nm_config, nm_ops, nm_calls, nm_prev>>

\* NdownDFINamelist.calc_other, wrf.py lines 421-429
DFICalcOther ==
    /\ nm_pc = At("wrf", 421)
    /\ \E r \in {DFIOther(nm_values, nm_loc, nm_self)} :
        /\ nm_values' = r.values
        /\ nm_loc' = r.loc
        /\ nm_self' = r.self
        /\ nm_pc' = IF IsErr(r.exc) THEN Idle ELSE After(nm_cls, nm_pc)
        /\ nm_op' = IF IsErr(r.exc) THEN [nm_op EXCEPT !.out = r.exc] ELSE nm_op
    /\ UNCHANGED <<pyver, gvars, cvars, tvars, svars, rvars, nm_cls, nm_config, nm_ops, nm_calls, nm_prev>>

\* NdownWRFNamelist.calc_other, wrf.py lines 438-445
WRFCalcOtherDates ==
    /\ nm_pc = At("wrf", 438)
    /\ \E r \in {WRFDates(nm_values, nm_loc, nm_self)} :
        /\ nm_values' = r.values
        /\ nm_loc' = r.loc
        /\ nm_self' = r.self
        /\ nm_pc' = IF IsErr(r.exc) THEN Idle ELSE After(nm_cls, nm_pc)
        /\ nm_op' = IF IsErr(r.exc) THEN [nm_op EXCEPT !.out = r.exc] ELSE nm_op
    /\ UNCHANGED <<pyver, gvars, cvars, tvars, svars, rvars, nm_cls, nm_config, nm_ops, nm_calls, nm_prev>>

\* NdownWRFNamelist.calc_other, wrf.py lines 448-451
WRFCalcOtherStream ==
    /\ nm_pc = At("wrf", 448)
    /\ \E r \in {WRFStream(nm_values, nm_loc, nm_self)} :
        /\ nm_values' = r.values
        /\ nm_loc' = r.loc
        /\ nm_self' = r.self
        /\ nm_pc' = IF IsErr(r.exc) THEN Idle ELSE After(nm_cls, nm_pc)
        /\ nm_op' = IF IsErr(r.exc) THEN [nm_op EXCEPT !.out = r.exc] ELSE nm_op
    /\ UNCHANGED <<pyver, gvars, cvars, tvars, svars, rvars, nm_cls, nm_config, nm_ops, nm_calls, nm_prev>>

\* calc_dfi, wrf.py lines 315-329: the section dfi_control
CalcDfiWrite ==
    /\ nm_pc = At("wrf", 315)
    /\ \E r \in {DfiOf(nm_values, nm_loc, nm_self)} :
        /\ nm_values' = r.values
        /\ nm_loc' = r.loc
        /\ nm_self' = r.self
        /\ nm_pc' = IF IsErr(r.exc) THEN Idle ELSE After(nm_cls, nm_pc)
        /\ nm_op' = IF IsErr(r.exc) THEN [nm_op EXCEPT !.out = r.exc] ELSE nm_op
    /\ UNCHANGED <<pyver, gvars, cvars, tvars, svars, rvars, nm_cls, nm_config, nm_ops, nm_calls, nm_prev>>

----------------------------------------------------------------------------
(* the public operations of a Namelist, namelist.py *)

MaxCalls == 2
MaxOps == 3

\* nml.calc_values() is called
CalcValues ==
    /\ nm_pc = Idle
    /\ nm_calls < MaxCalls
    /\ nm_calls' = nm_calls + 1
    /\ nm_pc' = Program(nm_cls)[1]
    /\ nm_loc' = NoLocals
    /\ nm_op' = Did("calc_values", PyNone, Undefined)
    /\ nm_prev' = nm_values
    /\ UNCHANGED <<pyver, gvars, cvars, tvars, svars, rvars, nm_cls, nm_config, nm_values,
                   nm_self, nm_ops>>

\* nml.section(section_name), lines 37-43
DocSection(section_name) ==
    /\ nm_pc = Idle
    /\ nm_ops < MaxOps
    /\ nm_ops' = nm_ops + 1
    /\ nm_values' = NmSection(nm_values, section_name)
    /\ nm_op' = Did("section", PyStr(section_name),
                    NmGet(NmSection(nm_values, section_name), section_name))
    /\ UNCHANGED <<pyver, gvars, cvars, tvars, svars, rvars, nm_cls, nm_config, nm_self,
                   nm_loc, nm_pc, nm_calls, nm_prev>>

\* nml[index], lines 31-32
DocGetItem(index) ==
    /\ nm_pc = Idle
    /\ nm_ops < MaxOps
    /\ nm_ops' = nm_ops + 1
    /\ nm_op' = Did("getitem", PyStr(index), NmGet(nm_values, index))
    /\ UNCHANGED <<pyver, gvars, cvars, tvars, svars, rvars, nm_cls, nm_config, nm_values,
                   nm_self, nm_loc, nm_pc, nm_calls, nm_prev>>

\* nml[index] = data, lines 34-35
DocSetItem(index, data) ==
    /\ nm_pc = Idle
    /\ nm_ops < MaxOps
    /\ nm_ops' = nm_ops + 1
    /\ nm_values' = NmPut(nm_values, index, data)
    /\ nm_op' = Did("setitem", PyStr(index), PyNone)
    /\ UNCHANGED <<pyver, gvars, cvars, tvars, svars, rvars, nm_cls, nm_config, nm_self,
                   nm_loc, nm_pc, nm_calls, nm_prev>>

\* del nml[key], lines 28-29: OrderedDict raises KeyError for a missing key
DocDelItem(key) ==
    /\ nm_pc = Idle
    /\ nm_ops < MaxOps
    /\ nm_ops' = nm_ops + 1
    /\ nm_values' = NmDel(nm_values, key)
    /\ nm_op' = Did("delitem", PyStr(key),
                    IF NmHas(nm_values, key) THEN PyNone ELSE PyErr("KeyError", key))
    /\ UNCHANGED <<pyver, gvars, cvars, tvars, svars, rvars, nm_cls, nm_config, nm_self,
                   nm_loc, nm_pc, nm_calls, nm_prev>>

\* index in nml, lines 25-26
DocContains(index) ==
    /\ nm_pc = Idle
    /\ nm_ops < MaxOps
    /\ nm_ops' = nm_ops + 1
    /\ nm_op' = Did("contains", PyStr(index), PyBool(NmHas(nm_values, index)))
    /\ UNCHANGED <<pyver, gvars, cvars, tvars, svars, rvars, nm_cls, nm_config, nm_values,
                   nm_self, nm_loc, nm_pc, nm_calls, nm_prev>>

\* nml.from_config(key, default), lines 45-52
DocFromConfig(key, default) ==
    /\ nm_pc = Idle
    /\ nm_ops < MaxOps
    /\ nm_ops' = nm_ops + 1
    /\ nm_op' = Did("from_config", PyStr(key), from_config(nm_config, key, default))
    /\ UNCHANGED <<pyver, gvars, cvars, tvars, svars, rvars, nm_cls, nm_config, nm_values,
                   nm_self, nm_loc, nm_pc, nm_calls, nm_prev>>

\* nml.update_with_extra(base_section), lines 54-62
DocUpdateWithExtra(base_section) ==
    /\ nm_pc = Idle
    /\ nm_ops < MaxOps
    /\ nm_ops' = nm_ops + 1
    /\ \E r \in {update_with_extra(nm_values, nm_config, base_section)} :
          /\ nm_values' = r.values
          /\ nm_op' = Did("update_with_extra", PyStr(base_section), r.exc)
    /\ UNCHANGED <<pyver, gvars, cvars, tvars, svars, rvars, nm_cls, nm_config, nm_self,
                   nm_loc, nm_pc, nm_calls, nm_prev>>

\* no namelist object exists
NamelistIdle ==
    /\ nm_cls = "" /\ nm_config = <<>> /\ nm_values = <<>>
    /\ nm_self = NoAttributes /\ nm_loc = NoLocals /\ nm_pc = Idle
    /\ nm_op = Did("", PyNone, PyNone) /\ nm_ops = 0 /\ nm_calls = 0
    /\ nm_prev = <<>>

----------------------------------------------------------------------------
(* util/dates.py: format_date, advance_date with all its increments, and  *)
(* the generator range_dates                                               *)

\* %m, %d, %H, %M, %S: two digits
Pad2(n) == IF n < 10 THEN <<"0">> \o NatText(n) ELSE NatText(n)

\* %Y of strftime: the C library pads a year below 1000 with zeros or
\* prints it as it is (glibc), so both are outcomes of the build
YearText(y, padded) ==
    IF padded /\ y < 1000
    THEN [i \in 1..(4 - Len(NatText(y))) |-> "0"] \o NatText(y)
    ELSE NatText(y)

\* format_date(date), lines 80-83, type "long": %Y-%m-%d_%H:%M:%S
format_date(date, padded) ==
    IF IsErr(read_date(date)) THEN read_date(date)
    ELSE LET f == read_date(date).v
         IN PyStr(YearText(f[1], padded) \o <<"-">> \o Pad2(f[2]) \o <<"-">>
                  \o Pad2(f[3]) \o <<"_">> \o Pad2(f[4]) \o <<":">> \o Pad2(f[5])
                  \o <<":">> \o Pad2(f[6]))

\* the characters of a formatted date in the order of their code points
DateChars == <<"-", "0", "1", "2", "3", "4", "5", "6", "7", "8", "9", ":", "_">>

CodeOf(c) == CHOOSE i \in 1..Len(DateChars) : DateChars[i] = c

\* a <= b of two str: the first differing character decides, a prefix is
\* smaller
TextLE(a, b) ==
    LET differ == {i \in 1..Len(a) : i > Len(b) \/ a[i] # b[i]}
    IN IF differ = {} THEN TRUE
       ELSE LET i == CHOOSE j \in differ : \A k \in differ : j <= k
            IN i <= Len(b) /\ CodeOf(a[i]) < CodeOf(b[i])

\* the increments of advance_date and range_dates: days, hours, minutes
\* and seconds
Increment(d, h, m, s) == [d |-> d, h |-> h, m |-> m, s |-> s]

\* date + timedelta(days, hours, minutes, seconds) for whole numbers:
\* OverflowError outside the years 1..9999
Shifted(f, inc) ==
    LET seconds == (f[4] + inc.h) * 3600 + (f[5] + inc.m) * 60 + f[6] + inc.s
        g == Carry(<<f[1], f[2], f[3] + inc.d + (seconds \div 86400),
                     (seconds % 86400) \div 3600, (seconds % 3600) \div 60,
                     seconds % 60>>)
    IN IF g[1] < 1 \/ g[1] > 9999 THEN PyErr("OverflowError", <<>>)
       ELSE PyDate(g[1], g[2], g[3], g[4], g[5], g[6])

\* advance_date(date, increment_d, increment_h, increment_m, increment_s),
\* lines 87-102
AdvanceDate(date, inc) ==
    IF IsErr(read_date(date)) THEN read_date(date)
    ELSE Shifted(read_date(date).v, inc)

MaxYield == 4

\* a generator range_dates(date_s, date_e, ...) is created: nothing of its
\* body has run
RangeCreated(date_s, date_e, inc) ==
    /\ rg_first = date_s
    /\ rg_date_s = date_s
    /\ rg_date_e = date_e
    /\ rg_inc = inc
    /\ rg_out = <<>>
    /\ rg_pc = "test"

\* line 107: while format_date(date_s) <= format_date(date_e)
RangeTest ==
    /\ rg_pc = "test"
    /\ Len(rg_out) < MaxYield
    /\ rg_pc' = IF IsErr(format_date(rg_date_s, rg_padded)) \/ IsErr(format_date(rg_date_e, rg_padded))
                THEN "raised"
                ELSE IF TextLE(format_date(rg_date_s, rg_padded).v,
                               format_date(rg_date_e, rg_padded).v)
                THEN "yield" ELSE "stopped"
    /\ UNCHANGED <<pyver, cvars, tvars, svars, rvars, nvars, rg_padded, rg_first,
                   rg_date_s, rg_date_e, rg_inc, rg_out>>

\* line 108: yield read_date(date_s)
RangeYield ==
    /\ rg_pc = "yield"
    /\ rg_out' = Append(rg_out, read_date(rg_date_s))
    /\ rg_pc' = "advance"
    /\ UNCHANGED <<pyver, cvars, tvars, svars, rvars, nvars, rg_padded, rg_first,
                   rg_date_s, rg_date_e, rg_inc>>

\* line 109: date_s = advance_date(date_s, ...), when next() is called again
RangeAdvance ==
    /\ rg_pc = "advance"
    /\ rg_date_s' = AdvanceDate(rg_date_s, rg_inc)
    /\ rg_pc' = IF IsErr(AdvanceDate(rg_date_s, rg_inc)) THEN "raised" ELSE "test"
    /\ UNCHANGED <<pyver, cvars, tvars, svars, rvars, nvars, rg_padded, rg_first,
                   rg_date_e, rg_inc, rg_out>>

\* no generator exists
RangeIdle ==
    /\ rg_padded = FALSE /\ rg_first = PyNone /\ rg_date_s = PyNone
    /\ rg_date_e = PyNone /\ rg_inc = Increment(0, 0, 0, 0) /\ rg_out = <<>>
    /\ rg_pc = "idle"

----------------------------------------------------------------------------
(* namelist/wps.py: the statements of WPSNamelist.calc_values that read no *)
(* configuration key                                                       *)

\* nd * [ pud.format_date(date) ]
FormattedTimes(nd, date, padded) ==
    IF IsErr(format_date(date, padded)) THEN format_date(date, padded)
    ELSE PyList(Times(nd, format_date(date, padded)))

\* lines 44-48: the section share
WpsShareOf(values, self, padded) ==
    SecPutUntil(values, N.share,
        << <<N.wrf_core, PyStr(N.ARW)>>,
           <<N.max_dom, self.max_dom>>,
           <<N.start_date, FormattedTimes(self.max_dom.v, self.date_s, padded)>>,
           <<N.end_date, FormattedTimes(self.max_dom.v, self.date_e, padded)>> >>)

\* lines 72-73: the section ungrib
WpsUngribOf(values) == Outcome(SecPut(values, N.ungrib, N.out_format, PyStr(N.WPS)), PyNone)

\* a block of WPSNamelist.calc_values has run with the given outcome
WpsBlock(outcome) ==
    /\ nm_values' = outcome.values
    /\ nm_pc' = IF IsErr(outcome.exc) THEN Idle ELSE After(nm_cls, nm_pc)
    /\ nm_op' = IF IsErr(outcome.exc) THEN [nm_op EXCEPT !.out = outcome.exc] ELSE nm_op
    /\ UNCHANGED <<pyver, gvars, cvars, tvars, svars, rvars, nm_cls, nm_config, nm_self,
                   nm_loc, nm_ops, nm_calls, nm_prev>>

WpsShare ==
    /\ nm_pc = At("wps", 44)
    /\ \E r \in {WpsShareOf(nm_values, nm_self, rg_padded)} : WpsBlock(r)

WpsUngrib ==
    /\ nm_pc = At("wps", 72)
    /\ \E r \in {WpsUngribOf(nm_values)} : WpsBlock(r)

\* line 82: self.update_with_extra("namelist_wps")
WpsExtra ==
    /\ nm_pc = At("wps", 82)
    /\ \E r \in {update_with_extra(nm_values, nm_config, N.namelist_wps)} : WpsBlock(r)

----------------------------------------------------------------------------
(* the arguments the operations are exercised with *)

MaxLen == 3
MaxSegs == 3

Alphabet == {"2", "3", "t", "*", ",", " "}

FreeTexts == UNION {[1..n -> Alphabet] : n \in 0..MaxLen}

Segs == { <<"1">>, <<"2">>, <<"3">>, <<"4">>, <<"t", "e", "x", "t">>,
          <<"2", "*", "3">>, <<"3", "*", "t">>, <<"2", "*", "2", ".", "5">> }

RECURSIVE SegTexts(_)
SegTexts(n) ==
    IF n = 1 THEN Segs
    ELSE LET shorter == SegTexts(n - 1) IN
         shorter \cup {t \o <<",", " ">> \o g : t \in shorter, g \in Segs}

Quotes == {<<>>, <<"'">>, <<"\"">>}

Exprs == { <<"3", "+", "4">>, <<"3", " ", "+", " ", "4">>, <<"8", ".", "/", "2">>,
           <<"3", "*", "4">>, <<"1", "-", "2">>, <<"7", "/", "2">>,
           <<"7", "%", "3">>, <<"3", "+">>, <<"t", "+", "1">>, <<"3", "/", "0">>,
           <<"3", " ", "4">>, <<"1", ".", "5", "+", "2">>,
           <<"(", "1", "+", "2", ")", "*", "3">> }

EvalTexts == { EvalWord \o q1 \o e \o q2 \o <<")">> :
                   q1 \in Quotes, q2 \in Quotes, e \in Exprs }

\* eval(...) markers inside other text: run_eval(3+4)  eval(3+4)km  ...
Befores == { <<>>, <<"r", "u", "n", "_">> }
Afters == { <<>>, <<"k", "m">> }
Embedded(b, e, a) == b \o EvalWord \o e \o <<")">> \o a

EmbeddedTexts == { Embedded(b, e, a) : b \in Befores, a \in Afters,
                                      e \in {<<"3", "+", "4">>, <<"1", "-", "2">>} }

Defaults == { PyNone, PyInt(0), PyFloat(<<0, 1>>), PyStr(<<>>), PyList(<<>>),
              PyBool(FALSE) }

PlainValues == { PyNone, PyInt(1), PyFloat(<<5, 2>>), PyBool(TRUE),
                 PyList(<<PyInt(1), PyInt(2)>>) }

CoerceInputs ==
    {PyStr(t) : t \in FreeTexts \cup SegTexts(MaxSegs) \cup EvalTexts \cup EmbeddedTexts}
        \cup PlainValues

DxValues == {100, 200, 1000, 3000, 9000, 10000, 27000, 30000}
IntervalValues == {60, 300, 3600, 10800}

CoerceIdle == cv_pc = "idle" /\ cv_in = PyNone /\ cv_def = PyNone /\ cv_out = PyNone
StepIdle == ts_pc = "idle" /\ ts_dx = 0 /\ ts_int = 0 /\ ts_k = 0 /\ ts_out = <<0, 1>>
StoreIdle ==
    /\ st_values = <<>>
    /\ st_op = Op("none", <<>>, PyNone, PyNone, PyNone)
    /\ st_hist = [k \in Keys |-> Undefined]

----------------------------------------------------------------------------
(* the configuration files read_config_file is exercised with *)

MainName == <<"f", ".", "y", "a", "m", "l">>
IncludeI == <<"i", ".", "y", "a", "m", "l">>
IncludeJ == <<"j", ".", "y", "a", "m", "l">>

\* os.environ: $v names the first include file
Environ == << << <<"v">>, IncludeI >> >>

Line(key, value) == key \o <<":", " ">> \o value \o NL

\* values of key a: '%b'  '%z'  '%(b)'  x%b  '%%b'  $$$$  ${v}  5  '"''1''"'
\* (no file defines a key z)
AVals ==
    { <<"'", "%", "b", "'">>,
      <<"'", "%", "z", "'">>,
      <<"'", "%", "(", "b", ")", "'">>,
      <<"x", "%", "b">>,
      <<"'", "%", "%", "b", "'">>,
      <<"$", "$", "$", "$">>,
      <<"$", "{", "v", "}">>,
      <<"5">>,
      <<"'", "\"", "'", "'", "1", "'", "'", "\"", "'">> }

\* values of key b: '%c'  '%b'  5  t  it's  t, t  1, 2  2.5  ~  '%a'  50%%
\* eval(3+4)  $v
BVals ==
    { <<"'", "%", "c", "'">>,
      <<"'", "%", "b", "'">>,
      <<"5">>,
      <<"t">>,
      <<"i", "t", "'", "s">>,
      <<"t", ",", " ", "t">>,
      <<"1", ",", " ", "2">>,
      <<"2", ".", "5">>,
      <<"~">>,
      <<"'", "%", "a", "'">>,
      <<"5", "0", "%", "%">>,
      <<"e", "v", "a", "l", "(", "3", "+", "4", ")">>,
      <<"$", "v">> }

\* the lines after key b: key c, or the nested mapping m
CLines ==
    { <<"c", ":", " ", "7", "\n">>,
      <<"c", ":", " ", "t", "\n">>,
      <<"c", ":", " ", "'", "%", "a", "'", "\n">>,
      <<"m", ":", "\n", " ", " ", "x", ":", " ", "'", "\"", "'", "'", "1", "'", "'", "\"", "'", "\n", " ", " ", "y", ":", " ", "'", "%", "b", "'", "\n">> }

\* files without an include, their values referring to one another
LoopDocs == { Line(<<"a">>, x) \o Line(<<"b">>, y) \o z :
                  x \in AVals, y \in BVals, z \in CLines }

\* values of the include key: i.yaml  i.yaml, j.yaml  j.yaml, i.yaml  ${v}  k.yaml
IncVals ==
    { <<"i", ".", "y", "a", "m", "l">>,
      <<"i", ".", "y", "a", "m", "l", ",", " ", "j", ".", "y", "a", "m", "l">>,
      <<"j", ".", "y", "a", "m", "l", ",", " ", "i", ".", "y", "a", "m", "l">>,
      <<"$", "{", "v", "}">>,
      <<"k", ".", "y", "a", "m", "l">> }

\* values of key e, which the include files define too
EVals ==
    { <<"1">>,
      <<"'", "\"", "'", "'", "1", "'", "'", "\"", "'">>,
      <<"~">>,
      <<"t", ",", " ", "t">> }

\* a key of the main file only, and a reference to an included key
NLines ==
    { <<"n", ":", " ", "4", "\n">>,
      <<"n", ":", " ", "4", "\n", "p", ":", " ", "'", "%", "(", "i", ")", "'", "\n">> }

\* the mapping m of the main file
MLines ==
    { <<>>,
      <<"m", ":", "\n", " ", " ", "1", ":", " ", "a", "\n">>,
      <<"m", ":", " ", "5", "\n">>,
      <<"m", ":", "\n", " ", " ", "2", ":", " ", "c", "\n", " ", " ", "1", ":", " ", "a", "\n">> }

\* files that include others (tests/test_util_config.py, CONF_INC_1)
IncDocs == { Line(IncludeKey.v, inc) \o Line(<<"e">>, e) \o n \o m :
                 inc \in IncVals, e \in EVals, n \in NLines, m \in MLines }

\* the first include file (CONF_INC_2)
IDocs ==
    { <<"e", ":", " ", "2", "\n", "i", ":", " ", "3", "\n", "m", ":", "\n", " ", " ", "2", ":", " ", "b", "\n">>,
      <<"i", ":", " ", "3", "\n", "m", ":", " ", "t", "\n">> }

\* the YAML scalar of the text """'''"'1'"'''""": the literal 1 quoted five
\* times over, each eval() taking one quoting off
DeepQuoted ==
    <<"'", "\"", "\"", "\"", "'", "'", "'", "'", "'", "'", "\"", "'", "'", "1", "'", "'", "\"", "'", "'", "'", "'", "'", "'", "\"", "\"", "\"", "'">>

\* the second include file
JDocs ==
    { <<"e", ":", " ", "5", "\n", "q", ":", " ">> \o DeepQuoted
          \o <<"\n", "m", ":", "\n", " ", " ", "3", ":", " ", "c", "\n", " ", " ", "2", ":", " ", "d", "\n">>,
      <<"i", ":", " ", "9", "\n", "q", ":", " ", "'", "%", "i", "'", "\n">> }

Files(main, i, j) == << <<MainName, main>>, <<IncludeI, i>>, <<IncludeJ, j>> >>

ReadInputs ==
    { Files(d, i, j) : d \in IncDocs, i \in IDocs, j \in JDocs }
        \cup { Files(d, <<"e", ":", " ", "2", "\n", "i", ":", " ", "3", "\n", "m", ":", "\n", " ", " ", "2", ":", " ", "b", "\n">>, <<"e", ":", " ", "5", "\n", "q", ":", " ", "t", "\n", "m", ":", "\n", " ", " ", "3", ":", " ", "c", "\n", " ", " ", "2", ":", " ", "d", "\n">>) : d \in LoopDocs }

NoException == [at |-> "", exc |-> PyNone]
Raised(at, exc) == [at |-> at, exc |-> exc]

NoUpdate == [self |-> <<>>, other |-> <<>>, out |-> PyNone]

ReadIdle ==
    /\ rd_pc = "idle" /\ rd_pass = 0 /\ rd_fs = <<>> /\ rd_env = <<>>
    /\ conf_str = <<>> /\ config_dict = PyNone /\ include_files = <<>>
    /\ rd_round = 0 /\ rd_first = <<>> /\ rd_merged = <<>>
    /\ rd_upd = NoUpdate /\ rd_incs = <<>> /\ rd_out = NoException

----------------------------------------------------------------------------
(* transform_value applied to one argument pair *)

TransformValue ==
    /\ cv_pc = "start"
    /\ cv_out' = transform_value(cv_in, cv_def)
    /\ cv_pc' = "done"
    /\ UNCHANGED <<pyver, gvars, nvars, cv_in, cv_def, tvars, svars, rvars>>

InitCoerce ==
    /\ pyver \in {2, 3}
    /\ cv_pc = "start"
    /\ cv_in \in CoerceInputs
    /\ cv_def \in Defaults
    /\ cv_out = PyNone
    /\ StepIdle
    /\ StoreIdle
    /\ ReadIdle
    /\ NamelistIdle
    /\ RangeIdle

NextCoerce == TransformValue

SpecCoerce == InitCoerce /\ [][NextCoerce]_vars

InitStep ==
    /\ pyver \in {2, 3}
    /\ ts_pc = "start"
    /\ ts_dx \in DxValues
    /\ ts_int \in IntervalValues
    /\ ts_k = 0
    /\ ts_out = <<0, 1>>
    /\ CoerceIdle
    /\ StoreIdle
    /\ ReadIdle
    /\ NamelistIdle
    /\ RangeIdle

NextStep == TsStart \/ TsLoop \/ TsReturn

SpecStep == InitStep /\ [][NextStep]_vars

\* ConfigStore(): read_config_file(None) leaves an empty store
InitStore ==
    /\ pyver \in {2, 3}
    /\ StoreIdle
    /\ CoerceIdle
    /\ StepIdle
    /\ ReadIdle
    /\ NamelistIdle
    /\ RangeIdle

NextStore ==
    \/ \E k \in Keys, v \in SetValues : StSetItem(k, v)
    \/ \E k \in Keys, v \in SetValues : StUpdateDefault(k, v)
    \/ \E k \in Keys : StGetItem(k)
    \/ \E k \in Keys : StContains(k)
    \/ \E k \in Keys, d \in Defaults : StGet(k, d)
    \/ \E p \in Paths, d \in Defaults : StGetNested(p, d)

SpecStore == InitStore /\ [][NextStore]_vars

----------------------------------------------------------------------------
(* ConfigStore(path): read_config_file, one action per step.  st_values is *)
(* self._values.                                                           *)

\* lines 247-265: self._values = SmartOrderedDict(), conf_str = f.read()
RdOpen ==
    /\ rd_pc = "open"
    /\ LET text == OpenFile(rd_fs, PyStr(MainName)) IN
       /\ conf_str' = IF IsErr(text) THEN conf_str ELSE text.v
       /\ rd_pc' = IF IsErr(text) THEN "failed" ELSE "env"
       /\ rd_out' = IF IsErr(text) THEN Raised("open", text) ELSE rd_out
    /\ st_values' = <<>>
    /\ UNCHANGED <<pyver, gvars, nvars, cvars, tvars, st_op, st_hist, rd_pass, rd_fs, rd_env,
                   config_dict, include_files, rd_round, rd_first, rd_merged,
                   rd_upd, rd_incs>>

\* line 271: the environment variables are substituted into the text
RdEnv ==
    /\ rd_pc = "env"
    /\ conf_str' = EnvSubstitute(conf_str, rd_env)
    /\ rd_pc' = "load"
    /\ UNCHANGED <<pyver, gvars, nvars, cvars, tvars, svars, rd_pass, rd_fs, rd_env,
                   config_dict, include_files, rd_round, rd_first, rd_merged,
                   rd_upd, rd_incs, rd_out>>

\* lines 274-280: config_dict = yaml.load(conf_str), include_files
RdLoad ==
    /\ rd_pc = "load"
    /\ \E d \in {YamlLoad(conf_str)} :
       \E f \in {IncludeFiles(d)} :
       \E exc \in {IF IsErr(d) THEN d ELSE f} :
           /\ config_dict' = IF IsErr(d) THEN config_dict ELSE d
           /\ include_files' = IF IsErr(exc) THEN include_files ELSE f.v
           /\ rd_pc' = IF IsErr(exc) THEN "failed" ELSE "include"
           /\ rd_out' = IF IsErr(exc) THEN Raised("load", exc) ELSE rd_out
    /\ UNCHANGED <<pyver, gvars, nvars, cvars, tvars, svars, rd_pass, rd_fs, rd_env, conf_str,
                   rd_round, rd_first, rd_merged, rd_upd, rd_incs>>

\* lines 281-284, one turn of the loop: the next file is read into a store
\* of its own, whose tree is merged into self._values
RdInclude ==
    /\ rd_pc = "include"
    /\ include_files # <<>>
    /\ \E i_store \in {ReadStore(rd_fs, rd_env, Head(include_files))} :
       \E merged \in {IF IsErr(i_store) THEN i_store
                      ELSE SodUpdate(st_values, i_store.v)} :
           /\ st_values' = IF IsErr(merged) THEN st_values ELSE merged.v
           /\ rd_incs' = IF IsErr(i_store) THEN rd_incs
                         ELSE Append(rd_incs, i_store.v)
           /\ rd_upd' = IF IsErr(i_store) THEN rd_upd
                        ELSE [self |-> st_values, other |-> i_store.v, out |-> merged]
           /\ rd_pc' = IF IsErr(merged) THEN "failed" ELSE "include"
           /\ rd_out' = IF IsErr(merged) THEN Raised("include", merged) ELSE rd_out
    /\ include_files' = Tail(include_files)
    /\ UNCHANGED <<pyver, gvars, nvars, cvars, tvars, st_op, st_hist, rd_pass, rd_fs, rd_env,
                   conf_str, config_dict, rd_round, rd_first, rd_merged>>

\* lines 285-287: the include key is dropped and the file's own tree is
\* merged on top of the included ones
RdMerge ==
    /\ rd_pc = "include"
    /\ include_files = <<>>
    /\ \E own \in {DelInclude(config_dict.v)} :
       \E merged \in {SodUpdate(st_values, own)} :
           /\ config_dict' = PyMap(own)
           /\ st_values' = IF IsErr(merged) THEN st_values ELSE merged.v
           /\ rd_merged' = IF IsErr(merged) THEN rd_merged ELSE merged.v
           /\ rd_upd' = [self |-> st_values, other |-> own, out |-> merged]
           /\ rd_pc' = IF IsErr(merged) THEN "failed" ELSE "loop"
           /\ rd_out' = IF IsErr(merged) THEN Raised("merge", merged) ELSE rd_out
    /\ UNCHANGED <<pyver, gvars, nvars, cvars, tvars, st_op, st_hist, rd_pass, rd_fs, rd_env,
                   conf_str, include_files, rd_round, rd_first, rd_incs>>

\* lines 290-295, one turn of the loop: dump, substitute, stop when the text
\* is unchanged, reload otherwise
RdRound ==
    /\ rd_pc = "loop"
    /\ rd_round < MaxRounds
    /\ Len(YamlDump(PyMap(st_values))) <= MaxText
    /\ \E r \in {Round(st_values)} :
       \E bad \in {IF IsErr(r.values) THEN r.values
                   ELSE IF r.values.t # "map" THEN NotModelled
                   ELSE PyNone} :
           /\ st_values' = IF IsErr(bad) THEN st_values ELSE r.values.v
           /\ rd_round' = IF r.stop THEN rd_round ELSE rd_round + 1
           /\ rd_pc' = IF r.stop THEN "done"
                       ELSE IF IsErr(bad) THEN "failed" ELSE "loop"
           /\ rd_out' = IF IsErr(bad) THEN Raised("loop", bad) ELSE rd_out
    /\ UNCHANGED <<pyver, gvars, nvars, cvars, tvars, st_op, st_hist, rd_pass, rd_fs, rd_env,
                   conf_str, config_dict, include_files, rd_first, rd_merged,
                   rd_upd, rd_incs>>

\* ConfigStore(io.StringIO(store.values)): a second store is read from the
\* dump of the first one (lines 204-206, 247-248 and 264-265)
RdReread ==
    /\ rd_pc = "done"
    /\ rd_pass = 1
    /\ rd_first' = st_values
    /\ conf_str' = YamlDump(PyMap(st_values))
    /\ st_values' = <<>>
    /\ rd_pass' = 2
    /\ rd_round' = 0
    /\ rd_pc' = "env"
    /\ UNCHANGED <<pyver, gvars, nvars, cvars, tvars, st_op, st_hist, rd_fs, rd_env,
                   config_dict, include_files, rd_merged, rd_upd, rd_incs, rd_out>>

InitRead ==
    /\ pyver \in {2, 3}
    /\ rd_pc = "open" /\ rd_pass = 1
    /\ rd_fs \in ReadInputs
    /\ rd_env = Environ
    /\ conf_str = <<>> /\ config_dict = PyNone /\ include_files = <<>>
    /\ rd_round = 0 /\ rd_first = <<>> /\ rd_merged = <<>>
    /\ rd_upd = NoUpdate /\ rd_incs = <<>> /\ rd_out = NoException
    /\ CoerceIdle
    /\ StepIdle
    /\ StoreIdle
    /\ NamelistIdle
    /\ RangeIdle

NextRead ==
    RdOpen \/ RdEnv \/ RdLoad \/ RdInclude \/ RdMerge \/ RdRound \/ RdReread

SpecRead == InitRead /\ [][NextRead]_vars

----------------------------------------------------------------------------
(* the configurations the namelist classes are exercised with *)

Ints(l) == PyList([i \in 1..Len(l) |-> PyInt(l[i])])

Entry(key, value) == <<PyStr(key), value>>

\* max_dom, parent_grid_ratio, parent_id and the per-domain sizes
Layouts ==
    { <<>>,
      <<Entry(N.max_dom, PyInt(2))>>,
      <<Entry(N.max_dom, PyInt(2)), Entry(N.parent_grid_ratio, Ints(<<1, 3>>))>>,
      <<Entry(N.max_dom, PyInt(3)), Entry(N.parent_grid_ratio, Ints(<<1, 3, 3>>)),
        Entry(N.parent_id, Ints(<<0, 1, 2>>)), Entry(N.e_we, Ints(<<70, 88, 100>>)),
        Entry(N.i_parent_start, Ints(<<1, 10, 20>>))>>,
      <<Entry(N.max_dom, PyInt(3)), Entry(N.parent_grid_ratio, Ints(<<1, 3, 5>>)),
        Entry(N.parent_id, Ints(<<0, 1, 1>>))>>,
      <<Entry(N.parent_grid_ratio, Ints(<<1, 3, 3>>)),
        Entry(N.parent_id, Ints(<<1, 1, 2>>))>>,
      <<Entry(N.max_dom, PyInt(3)), Entry(N.parent_grid_ratio, Ints(<<1, 3, 3>>)),
        Entry(N.parent_id, Ints(<<0, 3, 2>>))>>,
      <<Entry(N.max_dom, PyInt(3)), Entry(N.parent_grid_ratio, Ints(<<1, 3, 3>>)),
        Entry(N.parent_id, Ints(<<0, 2, 1>>))>> }

\* dx and dy in metres, or in degrees with and without the metgrid values
Grids ==
    { <<>>,
      <<Entry(N.dx, PyInt(9000)), Entry(N.dy, PyInt(3000))>>,
      <<Entry(N.dx, PyInt(5))>>,
      <<Entry(N.dx, PyInt(5)), Entry(N.met_dx, PyInt(30000)),
        Entry(N.met_dy, PyInt(30000))>> }

LastHour == <<"2", "0", "0", "0", "-", "1", "2", "-", "3", "1", " ", "2", "3", ":", "0", "0">>

\* interval_seconds, time_step, the dates and a per-domain list
Times3 ==
    { <<>>,
      <<Entry(N.interval_seconds, PyInt(1000))>>,
      <<Entry(N.time_step, PyInt(50))>>,
      <<Entry(N.date_s, PyStr(LastHour)), Entry(N.date_e, PyStr(LastHour))>>,
      <<Entry(N.history_interval, Ints(<<60, 30>>))>> }

\* ndown/fine_domains, alone and with ndown/interval_seconds
Fine(f) == <<Entry(N.ndown, PyMap(<<Entry(N.fine_domains, PyInt(f))>>))>>

FineWithInterval ==
    <<Entry(N.ndown, PyMap(<<Entry(N.fine_domains, PyInt(2)),
                             Entry(N.interval_seconds, PyInt(3600))>>))>>

\* ndown/fine_domains given as a list of two domains
FineList == <<Entry(N.ndown, PyMap(<<Entry(N.fine_domains, Ints(<<2, 3>>))>>))>>

Fines == {<<>>, Fine(1), Fine(3), FineWithInterval, FineList}

\* dfi_opt, extra namelist keys, an unknown land-surface scheme
Extras ==
    { <<>>,
      <<Entry(N.dfi_opt, PyInt(3)), Entry(N.dfi_backward_m, PyInt(30))>>,
      <<Entry(N.namelist_wrf,
              PyMap(<<Entry(N.fdda, PyMap(<<Entry(N.grid_fdda, PyInt(1))>>))>>))>>,
      <<Entry(N.sf_surface_physics, PyInt(6))>>,
      <<Entry(N.dfi_opt, PyInt(3)), Entry(N.dfi_backward_m, PyInt(30)),
        Entry(N.dfi_foreward_m, PyInt(90)),
        Entry(N.namelist_wrf,
              PyMap(<<Entry(N.dfi_control,
                            PyMap(<<Entry(N.dfi_bckstop_year, PyInt(1990))>>))>>))>> }

\* diagnostics/afwa: two diags, one of them per domain; a diag with a
\* scalar afwa_diag_opt among the extra namelist keys; no diag activated and
\* an afwa_diag_opt among the extra namelist keys
Afwa(diags, extra) ==
    <<Entry(N.diagnostics, PyMap(<<Entry(N.afwa, PyMap(diags))>>))>>
        \o (IF extra = PyNone THEN <<>>
            ELSE <<Entry(N.namelist_wrf,
                         PyMap(<<Entry(N.afwa,
                                       PyMap(<<Entry(N.afwa_diag_opt, extra)>>))>>))>>)

Afwas ==
    { Afwa(<<Entry(N.diag, Ints(<<1, 0>>)), Entry(N.severe, PyInt(2))>>, PyNone),
      Afwa(<<Entry(N.severe, PyInt(2))>>, PyInt(1)),
      Afwa(<<Entry(N.vis, PyInt(0))>>, Ints(<<1>>)) }

\* the three-domain nest used with the variations of the other keys
Nest == <<Entry(N.max_dom, PyInt(3)), Entry(N.parent_grid_ratio, Ints(<<1, 3, 3>>)),
          Entry(N.parent_id, Ints(<<0, 1, 2>>)), Entry(N.e_we, Ints(<<70, 88, 100>>)),
          Entry(N.i_parent_start, Ints(<<1, 10, 20>>))>>

WrfConfigs ==
    { l \o f : l \in Layouts, f \in Fines }
        \cup { l \o g \o t \o f : l \in {<<>>, Nest}, g \in Grids, t \in Times3,
                                  f \in {<<>>, FineWithInterval} }
        \cup { l \o f \o e : l \in {<<>>, Nest}, f \in Fines, e \in Extras }
        \cup { l \o a : l \in {<<>>, <<Entry(N.max_dom, PyInt(2))>>}, a \in Afwas }

\* cls(config): Namelist.__init__, namelist.py lines 16-23, and for the
\* classes of wrf.py the dfi_opt of WRFNamelist.__init__, line 59
Constructed(cls, config) ==
    /\ nm_cls = cls
    /\ nm_config = config
    /\ nm_values = <<>>
    /\ nm_self = IF cls \in WrfClasses
                 THEN [NoAttributes EXCEPT
                          !.dfi_opt = from_config(config, N.dfi_opt, PyInt(0))]
                 ELSE NoAttributes
    /\ nm_loc = NoLocals
    /\ nm_pc = Idle
    /\ nm_op = Did("__init__", PyNone, PyNone)
    /\ nm_ops = 0
    /\ nm_calls = 0
    /\ nm_prev = <<>>

InitWrf ==
    /\ pyver \in {2, 3}
    /\ \E cls \in WrfClasses, config \in WrfConfigs : Constructed(cls, config)
    /\ CoerceIdle
    /\ StepIdle
    /\ StoreIdle
    /\ ReadIdle
    /\ RangeIdle

\* the statements of calc_values
NextCalc ==
    \/ FromConfig \/ SectionLine \/ WrfDegrees \/ WrfTimeStep \/ WrfAccumulate
    \/ WrfSteps \/ WrfDomains \/ WrfVertical \/ WrfPhysics \/ WrfSoil
    \/ WrfDiagnostics \/ WrfExtra \/ WrfCalcOther \/ RealCalcOther
    \/ NdownCalcOther \/ DFICalcOther \/ WRFCalcOtherDates \/ WRFCalcOtherStream
    \/ CalcDfi \/ CalcDfiWrite \/ Return

NextWrf == CalcValues \/ NextCalc

SpecWrf == InitWrf /\ [][NextWrf]_vars

----------------------------------------------------------------------------
(* a Namelist document under its public operations *)

\* the stores a bare Namelist is built on
DocConfigs ==
    { <<>>,
      <<Entry(N.max_dom, PyInt(2)),
        Entry(N.namelist_wrf,
              PyMap(<<Entry(N.fdda, PyMap(<<Entry(N.grid_fdda, PyInt(1))>>))>>))>> }

\* the section names and the values the operations are called with
DocNames == {N.domains, N.fdda}

DocData == {PyMap(<<>>), PyMap(<<Entry(N.max_dom, PyInt(1))>>)}

DocKeys == {N.max_dom, N.namelist_wrf}

InitNamelist ==
    /\ pyver \in {2, 3}
    /\ \E config \in DocConfigs : Constructed("Namelist", config)
    /\ CoerceIdle
    /\ StepIdle
    /\ StoreIdle
    /\ ReadIdle
    /\ RangeIdle

NextNamelist ==
    \/ CalcValues
    \/ FromConfig
    \/ Return
    \/ \E name \in DocNames : DocSection(name)
    \/ \E name \in DocNames : DocGetItem(name)
    \/ \E name \in DocNames, data \in DocData : DocSetItem(name, data)
    \/ \E name \in DocNames : DocDelItem(name)
    \/ \E name \in DocNames : DocContains(name)
    \/ \E key \in DocKeys : DocFromConfig(key, PyNone)
    \/ DocUpdateWithExtra(N.namelist_wrf)

SpecNamelist == InitNamelist /\ [][NextNamelist]_vars

----------------------------------------------------------------------------
(* the dates and increments range_dates is exercised with *)

RangeStarts ==
    { PyStr(<<"1", "9", "9", "9", "-", "1", "2", "-", "3", "0">>), PyStr(<<"1", "9", "9", "9", "1", "2", "3", "1", "2", "2">>), PyStr(<<"2", "0", "0", "0", "-", "0", "1", "-", "0", "3">>),
      PyStr(<<"0", "9", "9", "9", "-", "1", "2", "-", "3", "0">>), PyDate(1999, 12, 31, 23, 30, 0),
      PyDate(2000, 2, 28, 0, 0, 0) }

RangeEnds ==
    { PyStr(<<"2", "0", "0", "0", "-", "0", "1", "-", "0", "2">>), PyStr(<<"2", "0", "0", "0", "-", "0", "1", "-", "0", "1", " ", "0", "1", ":", "0", "0">>),
      PyStr(<<"0", "9", "9", "9", "-", "1", "2", "-", "3", "1">>), PyDate(2000, 3, 1, 0, 0, 0) }

RangeIncrements ==
    { Increment(1, 0, 0, 0), Increment(0, 1, 0, 0), Increment(0, 0, 90, 0),
      Increment(0, 12, 0, 1800) }

InitRange ==
    /\ pyver \in {2, 3}
    /\ rg_padded \in BOOLEAN
    /\ \E date_s \in RangeStarts, date_e \in RangeEnds, inc \in RangeIncrements :
          RangeCreated(date_s, date_e, inc)
    /\ CoerceIdle
    /\ StepIdle
    /\ StoreIdle
    /\ ReadIdle
    /\ NamelistIdle

NextRange == RangeTest \/ RangeYield \/ RangeAdvance

SpecRange == InitRange /\ [][NextRange]_vars

----------------------------------------------------------------------------
(* the configurations WPSNamelist is exercised with *)

Text(key, text) == Entry(key, PyStr(text))

\* namelist_wps: {section: {key: value}}
WpsExtraOf(section_name, key, value) ==
    <<Entry(N.namelist_wps, PyMap(<<Entry(section_name, PyMap(<<Entry(key, value)>>))>>))>>

WpsBases ==
    { <<>>,
      <<Entry(N.max_dom, PyInt(2)), Text(N.date_s, <<"2", "0", "1", "5", "-", "0", "1", "-", "0", "1", " ", "0", "0", ":", "0", "0">>),
        Text(N.date_e, <<"2", "0", "1", "5", "-", "0", "1", "-", "0", "1", " ", "1", "2", ":", "0", "0">>), Entry(N.interval_seconds, PyInt(3600))>>,
      <<Entry(N.max_dom, PyInt(3)), Entry(N.dx, PyInt(25000)),
        Entry(N.ref_lat, PyFloat(<<45, 1>>)), Text(N.data_type, <<"C", "F", "S", "R">>)>> }

WpsExtras ==
    { <<>>,
      WpsExtraOf(N.geogrid, <<"e", "x", "t", "r", "a">>, PyStr(<<"u", "n", "u", "s", "e", "d">>)),
      WpsExtraOf(N.geogrid, N.dx, PyInt(9000)),
      WpsExtraOf(N.share, N.interval_seconds, PyInt(600)),
      WpsExtraOf(<<"m", "o", "d", "_", "l", "e", "v", "s">>, <<"p", "r", "e", "s", "s", "_", "p", "a">>, Ints(<<201300, 200100>>)),
      <<Entry(N.namelist_wps, PyMap(<<Entry(N.geogrid, PyInt(3))>>))>>,
      <<Entry(N.geog_data_path, PyInt(5))>>,
      <<Text(N.ungrib_prefix, <<"F", "I", "L", "E">>), Text(N.list_ungrib_prefixes, <<"F", "I", "L", "E">>)>> }

WpsConfigs == { b \o e : b \in WpsBases, e \in WpsExtras }

InitWps ==
    /\ pyver \in {2, 3}
    /\ \E config \in WpsConfigs : Constructed("WPSNamelist", config)
    /\ CoerceIdle
    /\ StepIdle
    /\ StoreIdle
    /\ ReadIdle
    /\ RangeIdle

NextWps ==
    \/ CalcValues \/ FromConfig \/ SectionLine \/ WpsShare \/ WpsUngrib
    \/ WpsExtra \/ Return

SpecWps == InitWps /\ [][NextWps]_vars

----------------------------------------------------------------------------
(* the documents of all six namelist classes: WPSNamelist on its        *)
(* configurations, and the classes of wrf.py on theirs                  *)

InitDocs == InitWps \/ InitWrf

NextDocs == NextWps \/ NextWrf

SpecDocs == InitDocs /\ [][NextDocs]_vars

----------------------------------------------------------------------------
(* Claims about transform_value (SpecCoerce) *)

IsCount(s) == s # <<>> /\ \A i \in 1..Len(s) : IsDigit(s[i])

\* a segment's evaluated literal: the value it denotes, or the text itself
Evaluated(s) == LET r == tryto_eval(s) IN IF IsErr(r) THEN PyStr(s) ELSE r

\* what the claimed rule makes of one trimmed segment
ClaimedSegment(seg) ==
    LET parts == Split(seg, "*") IN
    IF Len(parts) = 2 /\ IsCount(parts[1])
    THEN [i \in 1..DigitsVal(parts[1], 0) |-> Evaluated(parts[2])]
    ELSE <<Evaluated(seg)>>

RECURSIVE ClaimedList(_)
ClaimedList(segs) ==
    IF segs = <<>> THEN <<>>
    ELSE ClaimedSegment(segs[1]) \o ClaimedList(Tail(segs))

IsFlat(x) == x.t = "list" /\ \A i \in 1..Len(x.v) : x.v[i].t \notin {"list", "tuple"}

\* C7: transform_value on a text holding a comma or an asterisk returns one
\* flat list: every trimmed segment N*lit gives N copies of the evaluated
\* lit, every other segment gives one element, in source order, so that the
\* length is the sum of the repeat counts plus the number of plain segments.
C7_FlatOrderedList ==
    (cv_pc = "done" /\ cv_in.t = "str" /\ cv_def = PyNone
        /\ (Contains(cv_in.v, ",") \/ Contains(cv_in.v, "*")))
    => (IsFlat(cv_out)
        /\ cv_out = PyList(ClaimedList(Segments(Split(cv_in.v, ",")))))

\* the resolved value: what transform_value makes of the raw value alone
Resolved == transform_value(cv_in, PyNone)

FiveTypes == {"int", "float", "str", "list", "bool"}

\* Python defines type(default)(value) for these pairs only
Convertible(ty, x) ==
    CASE ty \in {"str", "bool"} -> TRUE
      [] ty = "list" -> x.t \in {"str", "list", "tuple"}
      [] ty = "int" -> x.t \in {"int", "float", "bool"}
                       \/ (x.t = "str" /\ IsCount(Strip(x.v)))
      [] ty = "float" -> x.t \in {"int", "float", "bool"}
                         \/ (x.t = "str" /\ ~IsErr(FloatOfText(x.v)))
      [] OTHER -> FALSE

\* C9 as stated: a null resolved value yields the default; with a non-null
\* default the returned value always has exactly the default's type, for
\* every pair of types among int, float, str, list, bool; with a null
\* default the resolved value is returned unchanged.
C9_AlwaysDefaultType ==
    (cv_pc = "done" /\ ~IsErr(Resolved))
    => IF Resolved.t = "none" THEN cv_out = cv_def
       ELSE IF cv_def.t = "none" THEN cv_out = Resolved
       ELSE (Resolved.t \in FiveTypes /\ cv_def.t \in FiveTypes)
            => cv_out.t = cv_def.t

\* C9 (amended): a null resolved value yields the default; with a null
\* default the resolved value is returned unchanged; with a non-null default
\* the returned value has exactly the default's type whenever Python defines
\* the conversion type(default)(value), and the call raises TypeError or
\* ValueError for the pairs where it defines none.
C9_DefaultTypeOrRaise ==
    (cv_pc = "done" /\ ~IsErr(Resolved))
    => IF Resolved.t = "none" THEN cv_out = cv_def
       ELSE IF cv_def.t = "none" THEN cv_out = Resolved
       ELSE IF Convertible(cv_def.t, Resolved)
            THEN cv_out.t = cv_def.t
            ELSE IsErr(cv_out) /\ cv_out.v[1] \in {"TypeError", "ValueError"}

\* a stored 1 read with default "" yields '1'
C9_Witness ==
    cv_pc = "done" /\ cv_in = PyInt(1) /\ cv_def = PyStr(<<>>)
        /\ cv_out = PyStr(<<"1">>)

----------------------------------------------------------------------------
(* Claims about eval(...) markers (SpecCoerce) *)

Marker(q1, e, q2) == PyStr(EvalWord \o q1 \o e \o q2 \o <<")">>)

\* C8: a value eval(e), e optionally quoted, read without a default: when e
\* is a well-formed arithmetic expression the result is the value of e;
\* otherwise the call raises an Exception whose message contains e
C8_MarkerEvaluatedOrRaises ==
    \A q1 \in Quotes, q2 \in Quotes, e \in Exprs :
        (cv_pc = "done" /\ cv_def = PyNone /\ cv_in = Marker(q1, e, q2)) =>
            IF q1 = q2 /\ ~IsErr(PyEval(e))
            THEN cv_out = PyEval(e)
            ELSE /\ IsErr(cv_out)
                 /\ cv_out.v[1] = "Exception"
                 /\ FindFrom(cv_out.v[2], e, 1) # 0

----------------------------------------------------------------------------
(* Claims about read_config_file (SpecRead) *)

KeysOf(m) == [i \in 1..Len(m) |-> m[i][1]]

Key(name) == PyStr(<<name>>)

\* the first read of the file has ended without an exception
FirstRead == rd_pc = "done" /\ rd_pass = 1

MainText == rd_fs[1][2]

\* the main file without its include line
OwnText ==
    IF StartsWith(MainText, IncludeKey.v)
    THEN Drop(MainText, FindFrom(MainText, NL, 1))
    ELSE MainText

\* the store read from the main file alone
OwnStore == ReadStore(<< <<MainName, OwnText>> >>, rd_env, PyStr(MainName))

RefersTo(x) == x.t = "str" /\ Contains(x.v, "%")

\* k holds no mapping in any file that defines it, and the main file does
\* not define it by a reference
PlainKey(k) ==
    /\ SodGet(config_dict.v, k).t # "map"
    /\ ~RefersTo(SodGet(config_dict.v, k))
    /\ \A j \in 1..Len(rd_incs) : SodGet(rd_incs[j], k).t # "map"

AllKeys ==
    Range(KeysOf(st_values)) \cup Range(KeysOf(config_dict.v))
        \cup UNION {Range(KeysOf(rd_incs[j])) : j \in 1..Len(rd_incs)}

\* transform_value returns the value as it is
Settled(x) == transform_value(x, PyNone) = x

\* what a read with includes leaves under the plain key k: the main file's
\* own value when it defines k, else the value of the last include defining
\* k (if `settled`: when transform_value leaves that value as it is); no
\* other key exists
Precedence(k, settled) ==
    LET defs == {j \in 1..Len(rd_incs) : MapHas(rd_incs[j], k)}
        last == CHOOSE j \in defs : \A i \in defs : i <= j
    IN  IF MapHas(config_dict.v, k)
        THEN MapHas(st_values, k) /\ SodGet(st_values, k) = SodGet(OwnStore.v, k)
        ELSE /\ defs # {}
             /\ (settled => Settled(SodGet(rd_incs[last], k))) =>
                    /\ MapHas(st_values, k)
                    /\ SodGet(st_values, k) = SodGet(rd_incs[last], k)

WithIncludes == FirstRead /\ rd_incs # <<>> /\ ~IsErr(OwnStore)

RECURSIVE MergeOf(_, _, _)
MergeOf(self, other, coerce) ==
    LET keys == KeysOf(self) \o SelectSeq(KeysOf(other), LAMBDA k : ~MapHas(self, k))
        Val(k) ==
            IF ~MapHas(other, k) THEN SodGet(self, k)
            ELSE IF MapHas(self, k) /\ SodGet(self, k).t = "map"
                    /\ SodGet(other, k).t = "map"
            THEN PyMap(MergeOf(SodGet(self, k).v, SodGet(other, k).v, coerce))
            ELSE IF coerce THEN transform_value(SodGet(other, k), PyNone)
            ELSE SodGet(other, k)
    IN  [i \in 1..Len(keys) |-> <<keys[i], Val(keys[i])>>]

\* some assignment of the merge raised
RECURSIVE Raises(_)
Raises(m) ==
    \E i \in 1..Len(m) : IsErr(m[i][2]) \/ (m[i][2].t = "map" /\ Raises(m[i][2].v))

Updated == rd_upd.out # PyNone

RECURSIVE RefNames(_)
RefNames(s) ==
    LET at == FindFrom(s, <<"%">>, 1)
        r == Drop(s, at)
        n == IdRun(r)
        b == IF r = <<>> THEN 0 ELSE IdRun(Tail(r))
    IN  IF at = 0 \/ r = <<>> THEN {}
        ELSE IF r[1] = "%" THEN RefNames(Tail(r))
        ELSE IF IsAlpha(r[1]) THEN {Take(r, n)} \cup RefNames(Drop(r, n))
        ELSE IF Len(r) >= b + 2 /\ r[1] = "(" /\ IsAlpha(r[2]) /\ r[b + 2] = ")"
        THEN {SubSeq(r, 2, b + 1)} \cup RefNames(Drop(r, b + 2))
        ELSE RefNames(r)

\* the top-level keys the value of key k refers to
Refs(values, k) ==
    {PyStr(n) : n \in RefNames(PyStrOf(SodGet(values, k)))} \cap Range(KeysOf(values))

RECURSIVE ReachedIn(_, _, _)
ReachedIn(values, from, n) ==
    IF n = 0 THEN from
    ELSE ReachedIn(values, from \cup UNION {Refs(values, k) : k \in from}, n - 1)

\* no top-level key refers to itself, directly or through other keys
Acyclic(values) ==
    \A k \in Range(KeysOf(values)) :
        k \notin ReachedIn(values, Refs(values, k), Len(values))

\* the name a text refers to when it is one placeholder and nothing else
WholeRef(s) ==
    IF Len(s) >= 2 /\ s[1] = "%" /\ IsAlpha(s[2]) /\ IdRun(Tail(s)) = Len(s) - 1
    THEN Tail(s)
    ELSE IF Len(s) >= 4 /\ s[1] = "%" /\ s[2] = "(" /\ s[Len(s)] = ")"
            /\ IsAlpha(s[3]) /\ IdRun(Drop(s, 2)) = Len(s) - 3
    THEN SubSeq(s, 3, Len(s) - 1)
    ELSE <<>>

\* the substitution loop of the first read has been entered
InLoop ==
    /\ rd_pass = 1
    /\ rd_pc \in {"loop", "done"} \/ (rd_pc = "failed" /\ rd_out.at = "loop")

\* C5: when the references among the top-level keys form no cycle, the loop
\* raises nothing and is never cut short, it stops on a tree whose dump the
\* substitution leaves unchanged, and there every key that was defined as a
\* reference to another key holds that key's final value
C5_AcyclicReferencesResolve ==
    (InLoop /\ Acyclic(rd_merged)) =>
        /\ rd_pc # "failed"
        /\ rd_pc = "loop" =>
               /\ rd_round < MaxRounds
               /\ Len(YamlDump(PyMap(st_values))) <= MaxText
        /\ rd_pc = "done" =>
               /\ Round(st_values).stop
               /\ \A k \in Range(KeysOf(rd_merged)) :
                      LET v == SodGet(rd_merged, k)
                          n == IF v.t = "str" THEN WholeRef(v.v) ELSE <<>>
                      IN  (n # <<>> /\ MapHas(rd_merged, PyStr(n))) =>
                              SodGet(st_values, k) = SodGet(st_values, PyStr(n))

NoIncludeKey == FindFrom(MainText, IncludeKey.v \o <<":">>, 1) = 0

\* C6: for a file without an include key, the store read from the dump of
\* the resolved store is read without an exception and holds the same tree
C6_ResolutionIdempotent ==
    (rd_pass = 2 /\ NoIncludeKey) =>
        /\ rd_pc # "failed"
        /\ rd_pc = "done" => st_values = rd_first

----------------------------------------------------------------------------
(* Claims about calc_time_step (SpecStep) *)

\* the smallest k >= k0 that divides interval_s evenly
SmallestDivisor(interval_s, k0) ==
    CHOOSE k \in k0..(IF k0 > interval_s THEN k0 ELSE interval_s) :
        /\ (interval_s % k = 0 \/ k = interval_s \/ k0 > interval_s)
        /\ \A j \in k0..(k - 1) : interval_s % j # 0

\* C10: calc_time_step returns interval_s/k for the smallest integer
\* k >= ceil(interval_s / (5*dx/1000)) with interval_s/k an exact integer:
\* the step is a whole number of seconds, divides interval_s evenly and does
\* not exceed 5*dx/1000.  Stated for the arguments that admit such a step
\* (5*dx/1000 >= 1).
C10_WholeDividingStep ==
    (ts_pc = "done" /\ 5 * ts_dx >= 1000)
    => /\ RatIsInt(ts_out)
       /\ ts_out[1] > 0
       /\ ts_int % ts_out[1] = 0
       /\ ~RatLess(Rat(5 * ts_dx, 1000), ts_out)
       /\ ts_out = Rat(ts_int, SmallestDivisor(ts_int, FirstK(ts_dx, ts_int)))

\* C11 as stated: calc_time_step(dx=27000, interval_s=10800) returns 180.
C11_Returns180 ==
    (ts_pc = "done" /\ ts_dx = 27000 /\ ts_int = 10800) => ts_out = Rat(180, 1)

\* C11: calc_time_step(dx=27000, interval_s=10800) returns 135: the search
\* starts at k = ceil(10800/135) = 80, which divides 10800, and 10800/80 is
\* 135 (the int 135 on Python 2, the float 135.0 on Python 3).
C11_Returns135 ==
    (ts_pc = "done" /\ ts_dx = 27000 /\ ts_int = 10800)
    => /\ ts_out = Rat(135, 1)
       /\ ts_k = 80

C11_Witness ==
    ts_pc = "done" /\ ts_dx = 27000 /\ ts_int = 10800 /\ ts_out = Rat(135, 1)

----------------------------------------------------------------------------
(* Claims about the ConfigStore lookups (SpecStore) *)

IsLookup == st_op.name \in {"getitem", "contains", "get"}

IsKeyError(x) == IsErr(x) /\ x.v[1] = "KeyError"

\* what every lookup makes of a key that reads as null
ReadsAsMissing ==
    CASE st_op.name = "getitem"  -> IsKeyError(st_op.out)
      [] st_op.name = "contains" -> st_op.out = PyBool(FALSE)
      [] st_op.name = "get"      -> st_op.out = st_op.default
      [] OTHER -> TRUE

\* value converted to the type of default
ConvertedTo(default, value) ==
    IF default.t = "none" \/ value.t = default.t THEN value
    ELSE Convert(default.t, value)

PresentNull(k) == MapHas(st_values, PyStr(k)) /\ SodGet(st_values, PyStr(k)).t = "none"
Absent(k) == ~MapHas(st_values, PyStr(k))

----------------------------------------------------------------------------
(* Claims about the namelist derivations (SpecWrf) *)

\* calc_values of an object of class cls has returned
Derived(cls) ==
    /\ nm_cls = cls
    /\ nm_pc = Idle
    /\ nm_op.name = "calc_values"
    /\ nm_op.out.t = "none"

\* calc_values of an object of class cls has raised an exception
Failed(cls) ==
    /\ nm_cls = cls
    /\ nm_pc = Idle
    /\ nm_op.name = "calc_values"
    /\ IsErr(nm_op.out)

\* the store of the object holds a value under the top-level key
Configured(key) == MapHas(nm_config, PyStr(key))

\* C12: in the base WRF derivation, when time_step is not configured, the
\* emitted domains.time_step is a whole number of seconds that divides the
\* emitted time_control.interval_seconds evenly, for every configured dx,
\* dy and interval_seconds.
C12_StepDividesInterval ==
    (Derived("WRFNamelist") /\ ~Configured(N.time_step))
    => LET dt == NumRat(Emitted(nm_values, N.domains, N.time_step))
           interval == Emitted(nm_values, N.time_control, N.interval_seconds).v
       IN /\ RatIsInt(dt)
          /\ dt[1] > 0
          /\ interval % dt[1] = 0

\* the list a section of the document holds under key, as a sequence
ListAt(section_name, key) == Emitted(nm_values, section_name, key).v

\* the root spacing divided by each accumulated ratio, as floats
Spacings(root, acc) ==
    [i \in 1..Len(acc) |-> PyFloat(RatDiv(NumRat(root), Rat(acc[i].v, 1)))]

BaseDerived == nm_calls >= 1 /\ nm_pc.f # "namelist"

\* the section exists and holds at least one entry
Populated(section_name) ==
    /\ NmHas(nm_values, section_name)
    /\ NmGet(nm_values, section_name).t = "map"
    /\ NmGet(nm_values, section_name).v # <<>>

\* C14: with an empty configuration Namelist.calc_values sets max_dom = 1,
\* date_s = 2000-01-01 00:00 and date_e = 2000-01-01 12:00, twelve hours
\* later, and WRFNamelist.calc_values completes without error and leaves
\* time_control, domains, dynamics and physics present and populated, with
\* domains.max_dom = 1.
C14_EmptyConfigDefaults ==
    /\ (nm_config = <<>> /\ BaseDerived)
       => /\ nm_self.max_dom = PyInt(1)
          /\ nm_self.date_s = PyDate(2000, 1, 1, 0, 0, 0)
          /\ nm_self.date_e = PyDate(2000, 1, 1, 12, 0, 0)
          /\ nm_self.date_e = advance_date(nm_self.date_s, 12, 0)
    /\ (nm_config = <<>> /\ nm_cls = "WRFNamelist" /\ nm_calls >= 1 /\ nm_pc = Idle)
       => /\ Derived("WRFNamelist")
          /\ \A section_name \in {N.time_control, N.domains, N.dynamics, N.physics} :
                Populated(section_name)
          /\ Emitted(nm_values, N.domains, N.max_dom) = PyInt(1)

\* WRFNamelist.calc_values has returned on the empty configuration
C14_Witness ==
    /\ nm_config = <<>>
    /\ Derived("WRFNamelist")
    /\ nm_self.date_e = PyDate(2000, 1, 1, 12, 0, 0)
    /\ Populated(N.physics)

\* the per-domain arrays of time_control and of domains
DateArrays ==
    {N.start_year, N.start_month, N.start_day, N.start_hour,
     N.end_year, N.end_month, N.end_day, N.end_hour}

DomainArrays ==
    {N.dx, N.dy, N.grid_id, N.parent_id, N.parent_grid_ratio, N.i_parent_start,
     N.j_parent_start, N.e_we, N.e_sn, N.starting_time_step, N.min_time_step,
     N.max_time_step, N.e_vert}

\* the section holds a list of n entries under key
HasLength(section_name, key, n) ==
    /\ Emitted(nm_values, section_name, key).t = "list"
    /\ Len(ListAt(section_name, key)) = n

\* C15: after the base WRF derivation with max_dom = n and every other key
\* left at its default, every per-domain array it emits has exactly n
\* entries: start_*, end_* and history_interval of time_control, the arrays
\* of domains and the option arrays of physics.
C15_ArraysHaveMaxDomEntries ==
    (Derived("WRFNamelist")
        /\ \A i \in 1..Len(nm_config) : nm_config[i][1] = PyStr(N.max_dom))
    => LET n == nm_self.max_dom.v
       IN /\ \A key \in DateArrays \cup {N.history_interval} :
                HasLength(N.time_control, key, n)
          /\ \A key \in DomainArrays : HasLength(N.domains, key, n)
          /\ \A i \in 1..Len(PhysicsNames) : HasLength(N.physics, PhysicsNames[i][1], n)

\* the first fine domain the derivation stored, and its parent
FirstFine(values) == Emitted(values, N.pywrf_store, N.fine_domains).v[1].v

ParentOf(values, f) == Emitted(values, N.pywrf_store, N.parent_id).v[f].v

\* f is a domain other than the root, and its parent is a domain
ValidFine(values, f) ==
    /\ f \in 2..Len(Emitted(values, N.pywrf_store, N.parent_id).v)
    /\ ParentOf(values, f) \in 1..Len(Emitted(values, N.pywrf_store, N.parent_id).v)

\* the entries of a per-domain array of section domains for the domains of
\* the sequence indices
Taken(values, key, indices) ==
    [j \in 1..Len(indices) |-> Emitted(values, N.domains, key).v[indices[j]]]

\* the date arrays of time_control hold n entries each, the start_* ones
\* those of date_s and the end_* ones those of date_e
DatesEmitted(values, n, date_s, date_e) ==
    \A j \in 1..8 :
        Emitted(values, N.time_control, DatePairs(n, date_s, date_e)[j][1])
            = DatePairs(n, date_s, date_e)[j][2]

\* the statements of calc_values that follow calc_other
AfterCalcOther(pc) ==
    \/ pc = End
    \/ \E i \in 1..Len(DfiLines) : pc = At("wrf", DfiLines[i])

\* C16: NdownNdownNamelist.calc_other, run on the base document with a
\* first fine domain f that is a valid non-root domain, emits max_dom = 2,
\* parent_id = [0, 1] and e_we, e_sn, dx, dy taken from (parent of f, f),
\* whatever the input max_dom; start_* and end_* get two entries each; the
\* end date is date_e, or date_s plus one hour when date_s = date_e.  The
\* statements that follow up to the return leave these values as they are.
C16_ParentAndFine ==
    [][/\ (/\ nm_cls = "NdownNdownNamelist"
           /\ nm_pc = At("wrf", 376)
           /\ nm_pc' # Idle
           /\ ValidFine(nm_values, FirstFine(nm_values)))
          => LET f == FirstFine(nm_values)
                 pair == <<ParentOf(nm_values, f), f>>
                 end == IF nm_self.date_s = nm_self.date_e
                        THEN advance_date(nm_self.date_s, 1, 0)
                        ELSE nm_self.date_e
             IN /\ Emitted(nm_values', N.domains, N.max_dom) = PyInt(2)
                /\ Emitted(nm_values', N.domains, N.parent_id)
                       = PyList(<<PyInt(0), PyInt(1)>>)
                /\ \A key \in {N.e_we, N.e_sn, N.dx, N.dy} :
                      Emitted(nm_values', N.domains, key)
                          = PyList(Taken(nm_values, key, pair))
                /\ DatesEmitted(nm_values', 2, nm_self.date_s, end)
       /\ (/\ nm_cls = "NdownNdownNamelist"
           /\ nm_pc = At("wrf", 412) \/ AfterCalcOther(nm_pc))
          => /\ NmGet(nm_values', N.domains) = NmGet(nm_values, N.domains)
             /\ \A key \in DateArrays :
                   Emitted(nm_values', N.time_control, key)
                       = Emitted(nm_values, N.time_control, key)
      ]_vars

\* calc_values has returned for the nest of three domains with fine domain
\* 2 and a run that starts and ends on 2000-12-31 23:00: the end date is
\* 2001-01-01 00:00
C16_Witness ==
    /\ Derived("NdownNdownNamelist")
    /\ SodGet(nm_config, PyStr(N.max_dom)) = PyInt(3)
    /\ FirstFine(nm_values) = 2
    /\ Emitted(nm_values, N.domains, N.max_dom) = PyInt(2)
    /\ ListAt(N.domains, N.e_we) = <<PyInt(70), PyInt(88)>>
    /\ ListAt(N.domains, N.dx) = <<PyFloat(<<27000, 1>>), PyFloat(<<9000, 1>>)>>
    /\ ListAt(N.time_control, N.end_year) = <<PyInt(2001), PyInt(2001)>>
    /\ ListAt(N.time_control, N.end_hour) = <<PyInt(0), PyInt(0)>>
    /\ ListAt(N.time_control, N.start_hour) = <<PyInt(23), PyInt(23)>>

\* every fine domain the derivation stored is one of its domains
ValidFines(values) ==
    /\ FineDomains(values) # <<>>
    /\ \A j \in 1..Len(FineDomains(values)) :
          FineDomains(values)[j]
              \in 1..Len(Emitted(values, N.pywrf_store, N.parent_id).v)

\* the accumulated ratio of domain f
RatioOf(values, f) == Emitted(values, N.pywrf_store, N.accumulated_gr).v[f].v

\* the fine domains the store asks for under ndown/fine_domains
AskedFines ==
    LET ndown == SodGet(nm_config, PyStr(N.ndown))
        asked == IF ndown.t = "map" THEN SodGet(ndown.v, PyStr(N.fine_domains))
                 ELSE PyNone
    IN IF asked.t = "list" THEN [j \in 1..Len(asked.v) |-> asked.v[j].v]
       ELSE IF asked.t = "int" THEN <<asked.v>>
       ELSE <<>>

\* calc_values has returned or raised on the nest of three domains with
\* fine domains that are domains of the nest
NestWithFines ==
    /\ nm_pc = Idle
    /\ nm_op.name = "calc_values"
    /\ \E f \in Fines : nm_config = Nest \o f
    /\ AskedFines # <<>>
    /\ \A j \in 1..Len(AskedFines) : AskedFines[j] \in 1..3

\* what C17 says of the document calc_values leaves for the fine domains F
RetainedAre(F) ==
    LET m == Len(F)
        parent_id == ListAt(N.domains, N.parent_id)
        ratio == ListAt(N.domains, N.parent_grid_ratio)
    IN /\ Emitted(nm_values, N.domains, N.max_dom) = PyInt(m)
       /\ \A key \in {N.parent_id, N.parent_grid_ratio, N.i_parent_start,
                      N.j_parent_start, N.e_we, N.e_sn, N.dx, N.dy} :
             HasLength(N.domains, key, m)
       /\ parent_id[1] = PyInt(0)
       /\ NumRat(ratio[1]) = Rat(1, 1)
       /\ \A j \in 1..m :
             /\ NumRat(ratio[j]) = Rat(RatioOf(nm_values, F[j]), RatioOf(nm_values, F[1]))
             /\ ListAt(N.domains, N.dx)[j]
                    = Spacings(nm_loc.dx, ListAt(N.pywrf_store, N.accumulated_gr))[F[j]]
             /\ ListAt(N.domains, N.e_we)[j]
                    = SodGet(nm_config, PyStr(N.e_we)).v[F[j]]
             /\ \A field \in 1..4 :
                   ListAt(N.time_control, EndPairs(m, nm_self.date_s)[field][1])[j]
                       = PyInt(nm_self.date_s.v[field])

\* C17: NdownRealNamelist.calc_values with the fine domains F = [f1, ...,
\* fm] emits max_dom = m and m entries in parent_id, parent_grid_ratio,
\* i_parent_start, j_parent_start, e_we, e_sn, dx and dy, entry j taken from
\* the original domain fj: the first is the new root (parent_id 0, ratio
\* 1), the ratio of each entry is its accumulated ratio divided by that of
\* f1, and end_year, end_month, end_day and end_hour hold the start date
\* for every retained domain.
C17_RetainedDomains ==
    (nm_cls = "NdownRealNamelist" /\ NestWithFines)
    => Derived("NdownRealNamelist") /\ RetainedAre(AskedFines)

\* C17 for one fine domain, as a property of the calc_other step against
\* the base document it starts from: entry j is taken from the original
\* domain fj, and the statements that follow up to the return leave the
\* values as they are
C17_OneFineDomain ==
    [][/\ (/\ nm_cls = "NdownRealNamelist"
           /\ nm_pc = At("wrf", 336)
           /\ nm_pc' # Idle
           /\ ValidFines(nm_values))
          => LET F == FineDomains(nm_values)
                 m == Len(F)
                 parent_id == Emitted(nm_values', N.domains, N.parent_id).v
                 ratio == Emitted(nm_values', N.domains, N.parent_grid_ratio).v
             IN /\ Emitted(nm_values', N.domains, N.max_dom) = PyInt(m)
                /\ \A key \in {N.i_parent_start, N.j_parent_start, N.e_we, N.e_sn,
                               N.dx, N.dy} :
                      Emitted(nm_values', N.domains, key)
                          = PyList(Taken(nm_values, key, F))
                /\ Len(parent_id) = m
                /\ Len(ratio) = m
                /\ parent_id[1] = PyInt(0)
                /\ NumRat(ratio[1]) = Rat(1, 1)
                /\ \A j \in 1..m :
                      /\ parent_id[j]
                             = PyInt(ParentOf(nm_values, F[j]) - ParentOf(nm_values, F[1]))
                      /\ NumRat(ratio[j])
                             = Rat(RatioOf(nm_values, F[j]), RatioOf(nm_values, F[1]))
                /\ \A j \in 1..m, field \in 1..4 :
                      Emitted(nm_values', N.time_control,
                              EndPairs(m, nm_self.date_s)[field][1]).v[j]
                          = PyInt(nm_self.date_s.v[field])
       /\ (nm_cls = "NdownRealNamelist" /\ AfterCalcOther(nm_pc))
          => /\ NmGet(nm_values', N.domains) = NmGet(nm_values, N.domains)
             /\ \A key \in DateArrays :
                   Emitted(nm_values', N.time_control, key)
                       = Emitted(nm_values, N.time_control, key)
      ]_vars

\* the end_* arrays of time_control hold date_e once for each of m domains
EndDatesAre(m, date_e) ==
    \A field \in 1..4 :
        Emitted(nm_values, N.time_control, EndPairs(m, date_e)[field][1])
            = EndPairs(m, date_e)[field][2]

\* 0 followed by n entries 2
Staggered(n) == PyList(<<PyInt(0)>> \o [j \in 1..n |-> PyInt(2)])

\* C18 as stated: after NdownWRFNamelist.calc_values with m retained fine
\* domains the end_* arrays hold date_e for each of the m domains,
\* fine_input_stream has exactly one entry per retained domain, 0 for the
\* first and 2 for every other one, and no dfi_control section is written
\* even when dfi_opt is non-zero in the configuration.
C18_OneEntryPerDomain ==
    Derived("NdownWRFNamelist")
    => LET m == Len(FineDomains(nm_values))
       IN /\ EndDatesAre(m, nm_self.date_e)
          /\ Emitted(nm_values, N.time_control, N.fine_input_stream) = Staggered(m - 1)
          /\ ~NmHas(nm_values, N.dfi_control)

\* calc_dfi wrote no section dfi_control: the document holds none, or the
\* one update_with_extra made of the extra keys namelist_wrf/dfi_control
NoDfiWritten ==
    \/ ~NmHas(nm_values, N.dfi_control)
    \/ LET extra == from_config(nm_config, N.namelist_wrf, PyMap(<<>>))
       IN /\ extra.t = "map"
          /\ NmGet(nm_values, N.dfi_control) = SodGet(extra.v, PyStr(N.dfi_control))

\* C18 (amended): after NdownWRFNamelist.calc_values with m retained fine
\* domains the end_* arrays hold date_e for each of the m domains,
\* fine_input_stream holds 0 followed by max(1, m-1) entries 2 (the two
\* entries [0, 2] for m = 1), and no dfi_control section is written by
\* calc_dfi even when dfi_opt is non-zero in the configuration.
C18_AtLeastOneMarked ==
    Derived("NdownWRFNamelist")
    => LET m == Len(FineDomains(nm_values))
       IN /\ EndDatesAre(m, nm_self.date_e)
          /\ Emitted(nm_values, N.time_control, N.fine_input_stream)
                 = Staggered(IF m - 1 > 1 THEN m - 1 ELSE 1)
          /\ NoDfiWritten

\* calc_values has returned for the nest of three domains with fine domain
\* 3 and dfi_opt: 3 in the store
C18_Witness ==
    /\ Derived("NdownWRFNamelist")
    /\ SodGet(nm_config, PyStr(N.dfi_opt)) = PyInt(3)
    /\ FineDomains(nm_values) = <<3>>
    /\ ListAt(N.time_control, N.end_hour) = <<PyInt(12)>>
    /\ ListAt(N.time_control, N.fine_input_stream) = <<PyInt(0), PyInt(2)>>
    /\ ~NmHas(nm_values, N.dfi_control)

NdownClasses ==
    {"NdownRealNamelist", "NdownNdownNamelist", "NdownDFINamelist",
     "NdownWRFNamelist"}

\* the statements of calc_other of the class: the base derivation (wrf.py
\* lines 61-296) has run without error when one of them is reached
InCalcOther(cls, pc) ==
    \E i \in 1..Len(OtherLines(cls)) : pc = At("wrf", OtherLines(cls)[i])

\* C19: for each of the four specializations, calc_values on a
\* configuration on which the base derivation succeeds, the empty one
\* included, completes without error (no statement of calc_other ends the
\* call) and leaves time_control, domains, dynamics and physics populated.
C19_SpecializationsComplete ==
    [][/\ (nm_cls \in NdownClasses /\ InCalcOther(nm_cls, nm_pc))
          => nm_pc' # Idle
       /\ (/\ nm_cls \in NdownClasses
           /\ nm_pc # Idle
           /\ nm_pc' = Idle
           /\ nm_op'.out.t = "none")
          => \A section_name \in {N.time_control, N.domains,
                                  N.dynamics, N.physics} :
                 /\ NmHas(nm_values', section_name)
                 /\ NmGet(nm_values', section_name).t = "map"
                 /\ NmGet(nm_values', section_name).v # <<>>
      ]_vars

----------------------------------------------------------------------------
(* Claims about the sections of a Namelist document (SpecNamelist) *)

\* the names of the sections of the document
SectionNames(values) == {values[i][1].v : i \in 1..Len(values)}

\* a section comes into existence only through section(name), an
\* assignment nml[name] = value, or the section(name) of update_with_extra
CreatedOnlyByAccess ==
    \A name \in SectionNames(nm_values') \ SectionNames(nm_values) :
        \/ nm_op'.name \in {"section", "setitem"} /\ nm_op'.arg = PyStr(name)
        \/ nm_op'.name = "update_with_extra"

\* membership tests and reads leave the document alone, and reading a
\* missing section raises KeyError
ReadsCreateNothing ==
    (nm_ops' # nm_ops /\ nm_op'.name \in {"contains", "getitem", "from_config"})
    => /\ nm_values' = nm_values
       /\ (nm_op'.name = "getitem" /\ ~NmHas(nm_values, nm_op'.arg.v))
          => (IsErr(nm_op'.out) /\ nm_op'.out.v[1] = "KeyError")
       /\ (nm_op'.name = "contains")
          => nm_op'.out = PyBool(NmHas(nm_values, nm_op'.arg.v))

\* section(name) on an existing section returns it with its contents
\* unchanged
SectionKeepsContents ==
    (/\ nm_ops' # nm_ops
     /\ nm_op'.name = "section"
     /\ NmHas(nm_values, nm_op'.arg.v))
    => /\ nm_values' = nm_values
       /\ nm_op'.out = NmGet(nm_values, nm_op'.arg.v)

\* C20 as stated: under any sequence of the public operations a section
\* comes into existence only through section(name) or an assignment, reads
\* and membership tests create none and reading a missing section raises
\* KeyError, section(name) on an existing section returns it unchanged, and
\* a section that exists is never removed afterwards.
C20_NeverRemoved ==
    [][/\ CreatedOnlyByAccess
       /\ ReadsCreateNothing
       /\ SectionKeepsContents
       /\ SectionNames(nm_values) \subseteq SectionNames(nm_values')
      ]_vars

\* C20 (amended): as above, but a section that exists is removed only by
\* del nml[name], which removes that section alone; no other operation
\* removes a section.
C20_RemovedOnlyByDel ==
    [][/\ CreatedOnlyByAccess
       /\ ReadsCreateNothing
       /\ SectionKeepsContents
       /\ \A name \in SectionNames(nm_values) \ SectionNames(nm_values') :
             /\ nm_op'.name = "delitem"
             /\ nm_op'.arg = PyStr(name)
             /\ nm_op'.out = PyNone
             /\ nm_values' = NmDel(nm_values, name)
      ]_vars

\* del nml["domains"] has removed the section domains and left the section
\* fdda, which holds max_dom: 1, as it was
C20_Witness ==
    /\ nm_cls = "Namelist"
    /\ nm_op.name = "delitem"
    /\ nm_op.arg = PyStr(N.domains)
    /\ nm_op.out = PyNone
    /\ ~NmHas(nm_values, N.domains)
    /\ NmGet(nm_values, N.fdda) = PyMap(<<Entry(N.max_dom, PyInt(1))>>)

----------------------------------------------------------------------------
(* Claims about range_dates (SpecRange) *)

\* a is not later than b, for two datetimes
NotLater(a, b) ==
    \E i \in 1..7 :
        /\ \A j \in 1..(i - 1) : a.v[j] = b.v[j]
        /\ i = 7 \/ a.v[i] < b.v[i]

\* date_s + k*increment
KthDate(k) ==
    AdvanceDate(rg_first, Increment(k * rg_inc.d, k * rg_inc.h, k * rg_inc.m,
                                    k * rg_inc.s))

----------------------------------------------------------------------------
(* Claims about the documents of every namelist class (SpecDocs) *)

\* the section of the configuration update_with_extra reads for the class:
\* namelist_wps in wps.py line 82, namelist_wrf in wrf.py line 295
ExtraKey(cls) == IF cls = "WPSNamelist" THEN N.namelist_wps ELSE N.namelist_wrf

\* the extra keys of the configuration, which calc_values leaves as it is:
\* a mapping of section names to mappings, or None
ExtraNml == from_config(nm_config, ExtraKey(nm_cls), PyNone)

\* the pairs <<section name, key>> the configuration gives extra values for
ExtraPairs ==
    IF ExtraNml.t # "map" THEN {}
    ELSE UNION { IF ExtraNml.v[i][2].t # "map" THEN {}
                 ELSE { <<ExtraNml.v[i][1].v, ExtraNml.v[i][2].v[j][1].v>> :
                          j \in 1..Len(ExtraNml.v[i][2].v) } : i \in 1..Len(ExtraNml.v) }

\* the value the configuration gives for the extra key of the section
ExtraValue(section_name, key) ==
    SodGet(SodGet(ExtraNml.v, PyStr(section_name)).v, PyStr(key))

\* the pairs <<section name, key>> the document holds
Pairs(values) ==
    UNION { IF values[i][2].t # "map" THEN {}
            ELSE { <<values[i][1].v, values[i][2].v[j][1].v>> :
                     j \in 1..Len(values[i][2].v) } : i \in 1..Len(values) }

\* calc_values of WPSNamelist or of the base WRFNamelist has returned
DerivationDone ==
    /\ nm_cls \in {"WPSNamelist", "WRFNamelist"}
    /\ nm_pc = Idle
    /\ nm_op = Did("calc_values", PyNone, PyNone)

\* the step update_with_extra of calc_values, wps.py 82 and wrf.py 295
ExtraStep ==
    /\ nm_cls \in {"WPSNamelist", "WRFNamelist"}
    /\ nm_pc \in {At("wps", 82), At("wrf", 295)}
    /\ nm_pc' # nm_pc

C22_WpsExtrasOverride ==
    [][/\ (DerivationDone' /\ nm_cls = "WPSNamelist")
          => \A p \in ExtraPairs :
                Emitted(nm_values', p[1], p[2]) = ExtraValue(p[1], p[2])
       /\ ExtraStep
          => \A p \in Pairs(nm_values) \ ExtraPairs :
                Emitted(nm_values', p[1], p[2]) = Emitted(nm_values, p[1], p[2])]_vars

\* and of WRFNamelist unless calc_dfi runs, that is when dfi_opt is 0
C22_WrfExtrasOverrideWithoutDfi ==
    [][(DerivationDone' /\ nm_cls = "WRFNamelist" /\ nm_self.dfi_opt = PyInt(0))
          => \A p \in ExtraPairs :
                Emitted(nm_values', p[1], p[2]) = ExtraValue(p[1], p[2])]_vars

----------------------------------------------------------------------------
(* Claims about the substitution loop of read_config_file (SpecRead) *)

\* the key holds a placeholder for itself and nothing else: %k or %(k)
HoldsItself(values, k) ==
    /\ SodGet(values, k).t = "str"
    /\ k.t = "str"
    /\ WholeRef(SodGet(values, k).v) = k.v

\* the loop of the first read has stopped on a file whose top-level keys
\* refer to one another in a cycle
StoppedOnCycle ==
    /\ InLoop
    /\ ~Acyclic(rd_merged)
    /\ rd_pc = "done"

\* C23 as stated: on a configuration with a cyclic local reference (a: %a,
\* or a: %b with b: %a) the substitution loop never terminates.
C23_CycleNeverTerminates == ~StoppedOnCycle

\* C23: on a configuration with a cyclic local reference the loop never
\* resolves the cycle: when it stops, a key still holds a placeholder for
\* itself, which the substitution replaces by the same text
C23_CycleNeverResolved ==
    StoppedOnCycle =>
        \E k \in Range(KeysOf(st_values)) : HoldsItself(st_values, k)

\* a: %b with b: %a has stopped, on a: %a and b: %b
C23_Witness ==
    /\ StoppedOnCycle
    /\ SodGet(rd_merged, Key("a")) = PyStr(<<"%", "b">>)
    /\ SodGet(rd_merged, Key("b")) = PyStr(<<"%", "a">>)
    /\ SodGet(st_values, Key("a")) = PyStr(<<"%", "a">>)
    /\ SodGet(st_values, Key("b")) = PyStr(<<"%", "b">>)

----------------------------------------------------------------------------
(* Claims about eval(...) markers inside other text (SpecCoerce) *)

\* C24: on a text that holds a well-formed eval(...) inside other text, such
\* as run_eval(3+4) or eval(3+4)km, tryto_eval returns the text with the
\* marker replaced by its result and the surrounding text kept, and does
\* not raise.
C24_EmbeddedMarkerReplaced ==
    \A b \in Befores, a \in Afters, e \in Exprs :
        (/\ cv_pc = "done"
         /\ cv_in = PyStr(Embedded(b, e, a))
         /\ b \o a # <<>>
         /\ ~IsErr(PyEval(e)))
        => /\ tryto_eval(cv_in.v) = PyStr(b \o PyStrOf(PyEval(e)) \o a)
           /\ ~IsErr(cv_out)

----------------------------------------------------------------------------
(* Claims about calc_dfi (SpecWrf) *)

\* the days of the years before year y, and of the months of y before mo
DaysBeforeYear(y) == 365 * (y - 1) + (y - 1) \div 4 - (y - 1) \div 100 + (y - 1) \div 400

RECURSIVE DaysBeforeMonth(_, _)
DaysBeforeMonth(y, mo) ==
    IF mo = 1 THEN 0 ELSE DaysBeforeMonth(y, mo - 1) + DaysIn(y, mo - 1)

\* the minutes from the start of year 1 to the date <<y, mo, d, h, mi>>
MinuteNumber(v) ==
    ((DaysBeforeYear(v[1]) + DaysBeforeMonth(v[1], v[2]) + v[3] - 1) * 24 + v[4]) * 60
        + v[5]

BackStopKeys == <<N.dfi_bckstop_year, N.dfi_bckstop_month, N.dfi_bckstop_day,
                  N.dfi_bckstop_hour, N.dfi_bckstop_minute>>

ForwardStopKeys == <<N.dfi_fwdstop_year, N.dfi_fwdstop_month, N.dfi_fwdstop_day,
                     N.dfi_fwdstop_hour, N.dfi_fwdstop_minute>>

\* the keys calc_dfi writes
DfiKeys == {N.dfi_opt} \cup Range(BackStopKeys) \cup Range(ForwardStopKeys)

\* the five fields of a stop, as the document holds them
StopOf(keys) == [i \in 1..5 |-> Emitted(nm_values, N.dfi_control, keys[i]).v]

\* every field of the stop is an integer of the document
StopWritten(keys) ==
    \A i \in 1..5 : Emitted(nm_values, N.dfi_control, keys[i]).t = "int"

\* the offsets of the configuration, in minutes
BackwardM == from_config(nm_config, N.dfi_backward_m, PyInt(0)).v
ForewardM == from_config(nm_config, N.dfi_foreward_m, PyInt(0)).v

\* C25: after calc_values of the base WRFNamelist, calc_dfi has written the
\* section dfi_control if and only if dfi_opt is not 0; when written, the
\* back stop is date_s minus dfi_backward_m minutes and the forward stop is
\* date_s plus dfi_foreward_m minutes (year, month, day, hour, minute), so
\* that back stop <= date_s <= forward stop for offsets that are not
\* negative.
C25_DfiWindow ==
    Derived("WRFNamelist") =>
        IF nm_self.dfi_opt = PyInt(0)
        THEN \A key \in DfiKeys :
                 <<N.dfi_control, key>> \notin ExtraPairs
                     => Emitted(nm_values, N.dfi_control, key) = PyNone
        ELSE /\ Emitted(nm_values, N.dfi_control, N.dfi_opt) = nm_self.dfi_opt
             /\ StopWritten(BackStopKeys)
             /\ StopWritten(ForwardStopKeys)
             /\ MinuteNumber(StopOf(BackStopKeys))
                    = MinuteNumber(nm_self.date_s.v) - BackwardM
             /\ MinuteNumber(StopOf(ForwardStopKeys))
                    = MinuteNumber(nm_self.date_s.v) + ForewardM
             /\ (BackwardM >= 0 /\ ForewardM >= 0)
                    => /\ MinuteNumber(StopOf(BackStopKeys))
                              <= MinuteNumber(nm_self.date_s.v)
                       /\ MinuteNumber(nm_self.date_s.v)
                              <= MinuteNumber(StopOf(ForwardStopKeys))

\* date_s 2000-01-01 00:00 with dfi_opt 3, 30 minutes backward and 90
\* forward: the window runs from 1999-12-31 23:30 to 2000-01-01 01:30
C25_Witness ==
    /\ Derived("WRFNamelist")
    /\ nm_self.dfi_opt = PyInt(3)
    /\ StopWritten(BackStopKeys)
    /\ StopOf(BackStopKeys) = <<1999, 12, 31, 23, 30>>
    /\ StopWritten(ForwardStopKeys)
    /\ StopOf(ForwardStopKeys) = <<2000, 1, 1, 1, 30>>

\* the derivation without dfi_opt has returned with no section dfi_control
C25_WitnessNoDfi ==
    /\ Derived("WRFNamelist")
    /\ nm_self.dfi_opt = PyInt(0)
    /\ ~NmHas(nm_values, N.dfi_control)

----------------------------------------------------------------------------
(* Claims about ConfigStore.get without raise_keyerror (SpecStore) *)

\* walking the path from value stops at a segment that cannot be resolved:
\* an absent key, a null value, or a value that is no mapping
RECURSIVE Unresolved(_, _)
Unresolved(value, path) ==
    IF path = <<>> THEN FALSE
    ELSE IF value.t # "map" THEN TRUE
    ELSE IF SodGet(value.v, PyStr(path[1])).t = "none" THEN TRUE
    ELSE Unresolved(SodGet(value.v, PyStr(path[1])), Tail(path))

\* C26: get(path, default=d) without raise_keyerror never raises, and gives
\* the default d whenever a segment of the path cannot be resolved (absent
\* key, null value, or an intermediate value that is no mapping).
C26_GetNeverRaises ==
    st_op.name \in {"get", "get_nested"} =>
        /\ ~IsErr(st_op.out)
        /\ Unresolved(PyMap(st_values), FlattenArgs(<<st_op.key>>))
              => st_op.out = st_op.default

\* what holds: get gives the default for an absent key and for a null
\* value, at the top level or below a mapping
C26_DefaultForAbsentOrNull ==
    (/\ st_op.name \in {"get", "get_nested"}
     /\ SodGet(st_values, PyStr(FlattenArgs(<<st_op.key>>)[1])).t = "none")
    => st_op.out = st_op.default

----------------------------------------------------------------------------
(* Claims about texts holding an asterisk (SpecCoerce) *)

\* C27: transform_value never fails on a text that holds no eval(...)
\* marker: a text with an asterisk is returned as text or as a list, never
\* as an exception.
C27_AsteriskTextNeverFails ==
    (/\ cv_pc = "done"
     /\ cv_def = PyNone
     /\ cv_in.t = "str"
     /\ EvalFindAll(cv_in.v) = <<>>)
    => /\ ~IsErr(cv_out)
       /\ Contains(cv_in.v, "*") => (cv_out = cv_in \/ cv_out.t = "list")

----------------------------------------------------------------------------
(* Claims about the placeholders no key matches (SpecRead) *)

\* the value of key k is a text whose placeholders all name keys the tree
\* does not have at its top level, and which holds no escape %%
OnlyUnmatched(values, k) ==
    /\ SodGet(values, k).t = "str"
    /\ RefNames(SodGet(values, k).v) # {}
    /\ Refs(values, k) = {}
    /\ FindFrom(SodGet(values, k).v, <<"%", "%">>, 1) = 0

\* C28: during the substitution loop a placeholder %name or %(name) whose
\* name is not a top-level key of the tree is left untouched in the value
\* that holds it; it is never replaced by any other text.
C28_UnmatchedLeftUntouched ==
    InLoop =>
        \A k \in Range(KeysOf(rd_merged)) :
            OnlyUnmatched(rd_merged, k) => SodGet(st_values, k) = SodGet(rd_merged, k)

----------------------------------------------------------------------------
(* Claims about a second call of calc_values (SpecDocs) *)

\* the second call of calc_values has returned without an exception
SecondDerived ==
    /\ nm_calls = 2
    /\ nm_pc = Idle
    /\ nm_op.name = "calc_values"
    /\ nm_op.out.t = "none"

\* C29: for every namelist class, when a second call of calc_values on the
\* same document returns, every section holds the keys and values the first
\* call left, and no step of either call changes the values of the store
C29_CalcValuesIdempotent ==
    /\ [](SecondDerived => nm_values = nm_prev)
    /\ [][nm_config' = nm_config]_vars

\* the configuration holds a block diagnostics
WithDiagnostics == from_config(nm_config, N.diagnostics, PyNone) # PyNone

\* C29, side fact: the same with no diagnostics configured
C29_IdempotentWithoutDiagnostics ==
    /\ [](SecondDerived /\ ~WithDiagnostics => nm_values = nm_prev)
    /\ [][nm_config' = nm_config]_vars

\* C29, side fact: the second call of WRFNamelist on the AFWA diags 1, 0 and
\* 2 of two domains returned, afwa_diag_opt being 3 and 2 as after the first
C29_AfwaOredTwice ==
    /\ SecondDerived
    /\ nm_cls = "WRFNamelist"
    /\ nm_values = nm_prev
    /\ Emitted(nm_values, N.afwa, N.afwa_diag_opt) = Ints(<<3, 2>>)

\* a second call of a downscaling class returned, having cut the arrays of
\* three domains again
C29_Witness ==
    /\ SecondDerived
    /\ nm_cls = "NdownRealNamelist"
    /\ nm_values = nm_prev
    /\ Len(Emitted(nm_values, N.pywrf_store, N.accumulated_gr).v) = 3
    /\ Emitted(nm_values, N.domains, N.max_dom) \in {PyInt(1), PyInt(2)}

\* a second call of WPSNamelist returned
C29_WitnessWps == SecondDerived /\ nm_cls = "WPSNamelist" /\ nm_values = nm_prev

----------------------------------------------------------------------------
(* Claims about the arrays of the downscaling classes (SpecWrf) *)

\* C30: for each of the four downscaling classes and every valid choice of
\* fine domains, after calc_values every per-domain array of the sections
\* domains and time_control (grid_id, parent_time_step_ratio, the time
\* steps, start_* and end_* among them) has as many entries as the emitted
\* domains.max_dom, and parent_time_step_ratio equals parent_grid_ratio.
C30_NdownArraysMatchMaxDom ==
    \A cls \in NdownClasses :
        (Derived(cls) /\ ValidFines(nm_values))
        => LET n == Emitted(nm_values, N.domains, N.max_dom).v
           IN /\ \A key \in DomainArrays \cup {N.parent_time_step_ratio} :
                    HasLength(N.domains, key, n)
              /\ \A key \in DateArrays : HasLength(N.time_control, key, n)
              /\ Emitted(nm_values, N.domains, N.parent_time_step_ratio)
                     = Emitted(nm_values, N.domains, N.parent_grid_ratio)

\* what holds of the four classes: the arrays calc_other rewrites have
\* max_dom entries
C30_RewrittenArraysMatchMaxDom ==
    \A cls \in NdownClasses :
        (Derived(cls) /\ ValidFines(nm_values))
        => \A key \in {N.parent_id, N.parent_grid_ratio, N.i_parent_start,
                       N.j_parent_start, N.e_we, N.e_sn, N.dx, N.dy} :
               HasLength(N.domains, key, Emitted(nm_values, N.domains, N.max_dom).v)

====
